---------------------------- MODULE Spec2Model ----------------------------
(***************************************************************************)
(* TowerWitch: the location-aware data freshness controller and its tiered *)
(* cache (src/TowerWitch-P.py: RadioReferenceAPI and EnhancedGPSWindow).   *)
(*                                                                         *)
(* Units.  Latitudes and longitudes are integers in microdegrees, times    *)
(* are integers in seconds, distances are integers in micromiles.  All     *)
(* positions of the model lie on one meridian (LonFixed), where the        *)
(* haversine formula reduces to R * |dlat|, so a distance is a linear      *)
(* function of the latitude difference; the two Earth radii of the source  *)
(* (3956 mi in calculate_distance_miles, 6371 km in haversine) are kept    *)
(* apart.                                                                  *)
(***************************************************************************)
EXTENDS Integers, Sequences, FiniteSets, TLC

VARIABLES
    now,        \* time.time() / datetime.now(), in seconds
    cache_dir,  \* the files of radio_cache/, file name -> content
    radio_api,  \* the RadioReferenceAPI object's fields
    win,        \* the EnhancedGPSWindow object's fields
    obs         \* what the last operation was given and what it returned

vars == <<now, cache_dir, radio_api, win, obs>>

-----------------------------------------------------------------------------
(* Geodesy *)

Abs(x) == IF x < 0 THEN -x ELSE x

\* The one meridian every position of the model lies on (-93.265 degrees).
LonFixed == 0 - 93265000

\* calculate_distance_miles: r = 3956 mi, so one degree of latitude is
\* 3956 * pi / 180 = 69.045 mi, one microdegree 69.045 micromiles.
calculate_distance_miles(lat1, lon1, lat2, lon2) ==
    LET d == Abs(lat2 - lat1) IN d * 69 + (d * 45) \div 1000

\* haversine: R = 6371 km, times 0.621371 mi/km = 3958.755 mi, so one
\* microdegree of latitude is 69.093 micromiles.
haversine(lat1, lon1, lat2, lon2) ==
    LET d == Abs(lat2 - lat1) IN d * 69 + (d * 93) \div 1000

-----------------------------------------------------------------------------
(* Location keys and cache file names *)

\* f"{x:.3f}": a coordinate rounded to three decimals, in millidegrees.
Fmt3(x) == IF x >= 0 THEN (x + 500) \div 1000 ELSE 0 - ((500 - x) \div 1000)

\* float("44.978"): the coordinate a key or a file name gives back, in
\* microdegrees; what the rounding dropped is gone.
ParseCoord(milli) == milli * 1000

\* The three key formats of the source.  A key is the text
\* [prefix_]lat_lon_radius; prefix "" is the key with no prefix.
RepeatersKey(lat, lon, radius_miles) ==
    [prefix |-> "", lat3 |-> Fmt3(lat), lon3 |-> Fmt3(lon), radius |-> radius_miles]

SkywarnKey(lat, lon, radius_miles) ==
    [prefix |-> "skywarn", lat3 |-> Fmt3(lat), lon3 |-> Fmt3(lon), radius |-> radius_miles]

NoaaKey(lat, lon, radius_miles) ==
    [prefix |-> "noaa", lat3 |-> Fmt3(lat), lon3 |-> Fmt3(lon), radius |-> radius_miles]

\* One piece of text.split('_'): a number float() accepts, or a word on
\* which float() raises ValueError.
NumPart(n) == [isNum |-> TRUE, num |-> n, word |-> ""]
WordPart(w) == [isNum |-> FALSE, num |-> 0, word |-> w]

\* location_key.split('_')
KeyParts(key) ==
    (IF key.prefix = "" THEN <<>> ELSE <<WordPart(key.prefix)>>)
        \o <<NumPart(key.lat3), NumPart(key.lon3), NumPart(key.radius)>>

\* get_cache_filename: f"{data_type}_{location_key}.json".  A file name is
\* the pair of its data type and its key.
get_cache_filename(data_type, location_key) == [dt |-> data_type, key |-> location_key]

\* cache_file.replace('.json', '').split('_')
FileNameParts(name) == <<WordPart(name.dt)>> \o KeyParts(name.key)

-----------------------------------------------------------------------------
(* The cache directory.  A file is [name, kind, timestamp, data, writer]:   *)
(* kind "ok" is a JSON object with an ISO timestamp and a data list;        *)
(* "malformed" is text json.load rejects; "badts" is an object whose        *)
(* timestamp fromisoformat rejects; "notdict" is valid JSON that is no      *)
(* object (data.get raises AttributeError).  writer names the operation     *)
(* that wrote the file ("disk": it was there when the program started).     *)

Exists(dir, name) == \E f \in dir : f.name = name
FileAt(dir, name) == CHOOSE f \in dir : f.name = name

\* A returned value: None, or a list.
NoneVal == [isNone |-> TRUE, data |-> <<>>]
ListVal(d) == [isNone |-> FALSE, data |-> d]

Returned(v) == [exc |-> "none", val |-> v]
Raised(e) == [exc |-> e, val |-> NoneVal]

\* json.load(f) followed by the first data.get(...): the exception the
\* file's content raises, "none" when it reads as an object.
JsonLoadExc(f) ==
    IF f.kind = "malformed" THEN "JSONDecodeError"
    ELSE IF f.kind = "notdict" THEN "AttributeError"
    ELSE "none"

\* datetime.fromisoformat(data.get('timestamp', '1970-01-01'))
FromIsoExc(f) == IF f.kind = "badts" THEN "ValueError" ELSE "none"

\* A handler that lets everything but ValueError (and its subclass
\* JSONDecodeError) through.
ExceptOnlyValueError(exc) == exc \in {"JSONDecodeError", "ValueError"}

\* "except Exception": every exception of the model is an Exception.
ExceptException(exc) == exc \in {"JSONDecodeError", "ValueError", "AttributeError", "KeyError", "TypeError"}

\* "except (ValueError, KeyError, json.JSONDecodeError)"
ExceptValueKeyJson(exc) == exc \in {"ValueError", "KeyError", "JSONDecodeError"}

\* The age limit of load_from_cache: age_hours < 24.
MaxAgeHours == 24

\* load_from_cache with a stale record treated as a miss.
LoadFromCacheTryFreshOnly(dir, t, data_type, location_key, force_fresh) ==
    LET cache_file == get_cache_filename(data_type, location_key) IN
    IF ~Exists(dir, cache_file) THEN Returned(NoneVal)
    ELSE LET f == FileAt(dir, cache_file)
             age_seconds == t - f.timestamp
         IN IF JsonLoadExc(f) # "none" THEN Raised(JsonLoadExc(f))
            ELSE IF FromIsoExc(f) # "none" THEN Raised(FromIsoExc(f))
            ELSE IF ~force_fresh /\ age_seconds < MaxAgeHours * 3600
                 THEN Returned(ListVal(f.data))
            ELSE Returned(NoneVal)

\* load_from_cache, the statements inside its try.
LoadFromCacheTry(dir, t, data_type, location_key, force_fresh) ==
    LET cache_file == get_cache_filename(data_type, location_key) IN
    IF ~Exists(dir, cache_file) THEN Returned(NoneVal)
    ELSE LET f == FileAt(dir, cache_file)
             age_seconds == t - f.timestamp
         IN IF JsonLoadExc(f) # "none" THEN Raised(JsonLoadExc(f))
            ELSE IF FromIsoExc(f) # "none" THEN Raised(FromIsoExc(f))
            ELSE IF ~force_fresh /\ age_seconds < MaxAgeHours * 3600
                 THEN Returned(ListVal(f.data))
            ELSE IF ~force_fresh THEN Returned(ListVal(f.data))
            ELSE Returned(NoneVal)

\* load_from_cache: the try, its "except Exception" and the final return None.
load_from_cache(dir, t, data_type, location_key, force_fresh) ==
    LET r == LoadFromCacheTry(dir, t, data_type, location_key, force_fresh) IN
    IF r.exc = "none" THEN r
    ELSE IF ExceptException(r.exc) THEN Returned(NoneVal)
    ELSE r

\* os.listdir(cache_dir): its order is unspecified; the model lists the
\* files by name, forwards or backwards (rev), so that either of two files
\* can come first.
NameRank(name) ==
    name.key.lat3 * 1000 + name.key.radius
        + (IF name.dt = "repeaters" THEN 0 ELSE IF name.dt = "skywarn" THEN 300 ELSE 600)

RECURSIVE SortedByRank(_, _)
SortedByRank(S, rev) ==
    IF S = {} THEN <<>>
    ELSE LET f == CHOOSE x \in S : \A y \in S :
                     IF rev THEN NameRank(x.name) >= NameRank(y.name)
                            ELSE NameRank(x.name) <= NameRank(y.name)
         IN <<f>> \o SortedByRank(S \ {f}, rev)

\* [f for f in os.listdir(...) if f.startswith(data_type) and f.endswith('.json')]
\* (no data type of the program is a prefix of another one).
ListCacheFiles(dir, data_type, rev) ==
    SortedByRank({f \in dir : f.name.dt = data_type}, rev)

Infinity == 2000000000
NearbyLimit == 50000000

\* One pass of the for loop of find_nearby_cached_data over cache_file f,
\* with its inner try; acc is [closest_distance, closest_data, exc].
NearbyStep(acc, f, current_lat, current_lon) ==
    LET filename_parts == FileNameParts(f.name) IN
    IF Len(filename_parts) < 3 THEN acc
    ELSE IF ~filename_parts[2].isNum \/ ~filename_parts[3].isNum
         THEN acc   \* float() raises ValueError: continue
    ELSE LET cache_lat == ParseCoord(filename_parts[2].num)
             cache_lon == ParseCoord(filename_parts[3].num)
             distance == calculate_distance_miles(current_lat, current_lon, cache_lat, cache_lon)
         IN IF distance < acc.closest_distance /\ distance < NearbyLimit
            THEN IF JsonLoadExc(f) = "none"
                 THEN [acc EXCEPT !.closest_distance = distance, !.closest_data = f.data]
                 ELSE IF ExceptValueKeyJson(JsonLoadExc(f)) THEN acc
                 ELSE [acc EXCEPT !.exc = JsonLoadExc(f)]
            ELSE acc

RECURSIVE NearbyScan(_, _, _, _)
NearbyScan(acc, cache_files, current_lat, current_lon) ==
    IF cache_files = <<>> \/ acc.exc # "none" THEN acc
    ELSE NearbyScan(NearbyStep(acc, Head(cache_files), current_lat, current_lon),
                    Tail(cache_files), current_lat, current_lon)

\* find_nearby_cached_data, the statements inside its outer try.
FindNearbyTry(dir, data_type, location_key, rev) ==
    LET parts == KeyParts(location_key) IN
    IF Len(parts) < 3 THEN Returned(ListVal(<<>>))
    ELSE IF ~parts[1].isNum \/ ~parts[2].isNum THEN Raised("ValueError")
    ELSE LET acc == NearbyScan([closest_distance |-> Infinity, closest_data |-> <<>>, exc |-> "none"],
                               ListCacheFiles(dir, data_type, rev),
                               ParseCoord(parts[1].num), ParseCoord(parts[2].num))
         IN IF acc.exc # "none" THEN Raised(acc.exc)
            ELSE Returned(ListVal(acc.closest_data))

\* find_nearby_cached_data: the try, its "except Exception" and return [].
find_nearby_cached_data(dir, data_type, location_key, rev) ==
    LET r == FindNearbyTry(dir, data_type, location_key, rev) IN
    IF r.exc = "none" THEN r
    ELSE IF ExceptException(r.exc) THEN Returned(ListVal(<<>>))
    ELSE r

\* load_last_known_good, the statements inside its try: the exact file,
\* whatever its age.  found is whether the try returned.
LastKnownGoodTry(dir, data_type, location_key) ==
    LET cache_file == get_cache_filename(data_type, location_key) IN
    IF ~Exists(dir, cache_file) THEN [found |-> FALSE, exc |-> "none", val |-> NoneVal]
    ELSE LET f == FileAt(dir, cache_file) IN
         IF JsonLoadExc(f) # "none"
         THEN [found |-> FALSE, exc |-> JsonLoadExc(f), val |-> NoneVal]
         ELSE IF FromIsoExc(f) # "none"
         THEN [found |-> FALSE, exc |-> FromIsoExc(f), val |-> NoneVal]
         ELSE [found |-> TRUE, exc |-> "none", val |-> ListVal(f.data)]

\* load_last_known_good: the exact file, else the nearby files.
load_last_known_good(dir, data_type, location_key, rev) ==
    LET r == LastKnownGoodTry(dir, data_type, location_key) IN
    IF r.found THEN Returned(r.val)
    ELSE IF r.exc # "none" /\ ~ExceptException(r.exc) THEN Raised(r.exc)
    ELSE find_nearby_cached_data(dir, data_type, location_key, rev)

\* save_to_cache that leaves an existing file as it is.
save_to_cache_keeps_existing(dir, t, data_type, location_key, data, who) ==
    LET cache_file == get_cache_filename(data_type, location_key) IN
    IF Exists(dir, cache_file) THEN dir
    ELSE dir \cup {[name |-> cache_file, kind |-> "ok", timestamp |-> t, data |-> data, writer |-> who]}

\* save_to_cache: the record written (json.dump of timestamp, data_type,
\* location_key, data), replacing the file of that name.
save_to_cache(dir, t, data_type, location_key, data, who) ==
    LET cache_file == get_cache_filename(data_type, location_key) IN
    {f \in dir : f.name # cache_file}
        \cup {[name |-> cache_file, kind |-> "ok", timestamp |-> t, data |-> data, writer |-> who]}

\* clear_all_cache: every .json file of the directory is removed.
clear_all_cache(dir) == {}

-----------------------------------------------------------------------------
(* Values shared by the specifications *)

\* A position that may be None.
NoLocation == [isNone |-> TRUE, lat |-> 0, lon |-> 0]
Location(lat, lon) == [isNone |-> FALSE, lat |-> lat, lon |-> lon]

\* RadioReferenceAPI.__init__
InitRadioApi(key) ==
    [api_key |-> key,
     last_api_location |-> NoLocation,
     last_api_time |-> 0,
     location_history |-> <<>>,
     is_online_called |-> FALSE]

\* The fields of the window that no operation of a specification touches.
IdleWin == [started |-> FALSE]

NoObs == [op |-> "none"]

-----------------------------------------------------------------------------
(* SpecCache: the cache store alone.  Its operations are called with the    *)
(* (data type, key) pairs the program builds, on a directory that may hold  *)
(* a file left by an earlier run, damaged or not.                           *)

DataTypes == {"repeaters", "skywarn", "noaa"}

\* The key get_repeaters_by_location, get_skywarn_repeaters and
\* get_noaa_weather_radio build for a position (radius 200, 100, 200).
KeyFor(data_type, lat) ==
    IF data_type = "repeaters" THEN RepeatersKey(lat, LonFixed, 200)
    ELSE IF data_type = "skywarn" THEN SkywarnKey(lat, LonFixed, 100)
    ELSE NoaaKey(lat, LonFixed, 200)

\* 44.9778 N, and the points 0.1 degree (6.9 mi) and 1 degree (69 mi) north
\* of it; the far point holds repeater data only.
CacheLats(data_type) ==
    IF data_type = "repeaters" THEN {44977800, 45077800, 45977800}
    ELSE {44977800, 45077800}
\* The positions the fallback read is asked for.
QueryLats == {44977800}

\* Payloads are lists of repeater entries, each entry a number (see Entries).
CachePayloads == {<<1, 2, 3, 4, 5, 6, 7>>, <<8, 9>>}

\* What an earlier run, or a crash in the middle of a write, may have left.
LeftFile(data_type, lat, kind, data) ==
    [name |-> get_cache_filename(data_type, KeyFor(data_type, lat)),
     kind |-> kind, timestamp |-> 0 - 43200, data |-> data, writer |-> "disk"]

InitialDirs ==
    {{}}
    \cup {{LeftFile(dt, 44977800, k, <<8, 9>>)} :
             dt \in DataTypes, k \in {"malformed", "badts", "notdict"}}
    \cup {{LeftFile("repeaters", 45077800, k, <<8, 9>>)} : k \in {"malformed", "notdict", "ok"}}
    \cup {{LeftFile("repeaters", 44977800, "ok", <<>>)}}

MaxFiles == 2
MaxDays == 1

InitCache ==
    /\ now = 0
    /\ cache_dir \in InitialDirs
    /\ radio_api = InitRadioApi(FALSE)
    /\ win = IdleWin
    /\ obs = NoObs

SaveToCache(data_type, lat, data) ==
    LET key == KeyFor(data_type, lat) IN
    /\ Cardinality(save_to_cache(cache_dir, now, data_type, key, data, "save_to_cache")) <= MaxFiles
    /\ cache_dir' = save_to_cache(cache_dir, now, data_type, key, data, "save_to_cache")
    /\ obs' = [op |-> "save_to_cache", dt |-> data_type, key |-> key, data |-> data]
    /\ UNCHANGED <<now, radio_api, win>>

LoadFromCache(data_type, lat, force_fresh) ==
    LET key == KeyFor(data_type, lat)
        r == load_from_cache(cache_dir, now, data_type, key, force_fresh)
        after_save == obs.op = "save_to_cache" /\ obs.dt = data_type /\ obs.key = key
    IN /\ obs' = [op |-> "load_from_cache", dt |-> data_type, key |-> key,
                  force_fresh |-> force_fresh, exc |-> r.exc, ret |-> r.val,
                  after_save |-> after_save,
                  saved |-> IF after_save THEN obs.data ELSE <<>>]
       /\ UNCHANGED <<now, cache_dir, radio_api, win>>

LoadLastKnownGood(data_type, lat, rev) ==
    LET key == KeyFor(data_type, lat)
        r == load_last_known_good(cache_dir, data_type, key, rev)
    IN /\ obs' = [op |-> "load_last_known_good", dt |-> data_type, key |-> key,
                  exc |-> r.exc, ret |-> r.val]
       /\ UNCHANGED <<now, cache_dir, radio_api, win>>

ClearAllCache ==
    /\ cache_dir # {}
    /\ cache_dir' = clear_all_cache(cache_dir)
    /\ obs' = [op |-> "clear_all_cache"]
    /\ UNCHANGED <<now, radio_api, win>>

\* A day passes.
DayPasses ==
    /\ now + 86400 <= MaxDays * 86400
    /\ now' = now + 86400
    /\ obs' = [op |-> "time"]
    /\ UNCHANGED <<cache_dir, radio_api, win>>

NextCache ==
    \/ \E dt \in DataTypes : \E lat \in CacheLats(dt), data \in CachePayloads :
           SaveToCache(dt, lat, data)
    \/ \E dt \in DataTypes : \E lat \in CacheLats(dt) : LoadFromCache(dt, lat, FALSE)
    \/ \E dt \in DataTypes, lat \in QueryLats : LoadFromCache(dt, lat, TRUE)
    \/ \E dt \in DataTypes, lat \in QueryLats, rev \in BOOLEAN : LoadLastKnownGood(dt, lat, rev)
    \/ ClearAllCache
    \/ DayPasses

SpecCache == InitCache /\ [][NextCache]_vars

-----------------------------------------------------------------------------
(* Claims about the cache store, checked under SpecCache *)

\* The file the last cache operation addressed.
ObsName == get_cache_filename(obs.dt, obs.key)
ObsIsRead == obs.op \in {"load_from_cache", "load_last_known_good"}
ObsFileReadable ==
    Exists(cache_dir, ObsName) /\ FileAt(cache_dir, ObsName).kind = "ok"

\* C6 as the spec states it: load_from_cache returns the stored payload only
\* if the record is less than 24 hours old; an older record is a miss.
C6_PayloadOnlyIfFresh ==
    (obs.op = "load_from_cache" /\ ~obs.force_fresh /\ ObsFileReadable)
        => (~obs.ret.isNone <=> now - FileAt(cache_dir, ObsName).timestamp < 24 * 3600)

\* C6 amended: called with force_fresh false, as every caller does,
\* load_from_cache returns the payload of a readable record whatever its
\* age; a record of 24 hours or more is returned too, not a miss.
C6_StaleIsReturnedToo ==
    (obs.op = "load_from_cache" /\ ~obs.force_fresh /\ ObsFileReadable)
        => (obs.exc = "none" /\ obs.ret = ListVal(FileAt(cache_dir, ObsName).data))

C6_Witness ==
    /\ obs.op = "load_from_cache" /\ ~obs.force_fresh /\ ObsFileReadable
    /\ now - FileAt(cache_dir, ObsName).timestamp >= 24 * 3600
    /\ obs.ret.data # <<>>

\* C7: load_from_cache right after save_to_cache with the same data type and
\* key returns the payload just saved, also when the save replaced a record.
C7_SaveThenLoad ==
    (obs.op = "load_from_cache" /\ obs.after_save /\ ~obs.force_fresh)
        => (obs.exc = "none" /\ obs.ret = ListVal(obs.saved))

C7_Witness ==
    /\ obs.op = "load_from_cache" /\ obs.after_save /\ ~obs.force_fresh
    /\ obs.saved # <<>> /\ obs.ret = ListVal(obs.saved)

\* The files of a data type that hold a payload, with the distance from a
\* key's coordinates to the coordinates in the file's name.
PayloadFiles(data_type) ==
    {f \in cache_dir : f.name.dt = data_type /\ f.kind \in {"ok", "badts"}}
KeyDistance(key, f) ==
    calculate_distance_miles(ParseCoord(key.lat3), ParseCoord(key.lon3),
                             ParseCoord(f.name.key.lat3), ParseCoord(f.name.key.lon3))
FilesWithin50(data_type, key) ==
    {f \in PayloadFiles(data_type) : KeyDistance(key, f) < 50 * 1000000}

\* C8: with no record for the exact key, load_last_known_good returns the
\* payload of the closest file of the data type within 50 miles, for every
\* data type, and an empty list when no file is within 50 miles.
C8_ClosestWithin50 ==
    (obs.op = "load_last_known_good" /\ ~Exists(cache_dir, ObsName))
        => IF FilesWithin50(obs.dt, obs.key) = {}
           THEN obs.ret = ListVal(<<>>)
           ELSE \E f \in FilesWithin50(obs.dt, obs.key) :
                   /\ \A g \in FilesWithin50(obs.dt, obs.key) :
                          KeyDistance(obs.key, f) <= KeyDistance(obs.key, g)
                   /\ obs.ret = ListVal(f.data)

\* C9: load_from_cache and load_last_known_good never raise.  A missing
\* file, malformed JSON or an unparseable timestamp is None from
\* load_from_cache, and from load_last_known_good a list: the payload of a
\* file of that data type, or the empty list (always so on an empty
\* directory).
C9_ReadsNeverRaise ==
    /\ ObsIsRead => obs.exc = "none"
    /\ (obs.op = "load_from_cache" /\ ~ObsFileReadable) => obs.ret = NoneVal
    /\ obs.op = "load_last_known_good" =>
          /\ ~obs.ret.isNone
          /\ \/ obs.ret.data = <<>>
             \/ \E f \in PayloadFiles(obs.dt) : obs.ret.data = f.data
          /\ cache_dir = {} => obs.ret.data = <<>>

C9_Witness ==
    /\ obs.op = "load_last_known_good"
    /\ Exists(cache_dir, ObsName) /\ FileAt(cache_dir, ObsName).kind = "malformed"
    /\ obs.exc = "none" /\ obs.ret.data # <<>>

-----------------------------------------------------------------------------
(* The freshness controller (RadioReferenceAPI, lines 261-361) *)

min_movement_threshold == 500000       \* 0.5 miles
stationary_update_interval == 300      \* 5 minutes
moving_update_interval == 60           \* 1 minute
fast_update_interval == 15             \* 15 seconds
FastMovementMiles == 100000            \* the 0.1 of "distance_moved > 0.1"
RecentMovementMiles == 50000           \* the 0.05 of detect_movement
HistoryLimit == 10                     \* "Keep only last 10 readings"

\* An entry of location_history; the time of the reading is stored by the
\* source and never read, so it is left out.
Reading(lat, lon) == [lat |-> lat, lon |-> lon]

\* location_history[-3:]
LastThree(h) == SubSeq(h, Len(h) - 2, Len(h))

\* detect_movement that looks at the last two readings only.
detect_movement_last_step(location_history) ==
    IF Len(location_history) < 3 THEN FALSE
    ELSE LET recent_locations == LastThree(location_history)
         IN calculate_distance_miles(recent_locations[2].lat, recent_locations[2].lon,
                                     recent_locations[3].lat, recent_locations[3].lon)
                > RecentMovementMiles

\* detect_movement: more than 0.05 miles over the last three readings.
detect_movement(location_history) ==
    IF Len(location_history) < 3 THEN FALSE
    ELSE LET recent_locations == LastThree(location_history)
             total_movement ==
                 calculate_distance_miles(recent_locations[1].lat, recent_locations[1].lon,
                                          recent_locations[2].lat, recent_locations[2].lon)
                 + calculate_distance_miles(recent_locations[2].lat, recent_locations[2].lon,
                                            recent_locations[3].lat, recent_locations[3].lon)
         IN total_movement > RecentMovementMiles

\* location_history.append(...) and the pop(0) that keeps ten readings.
AppendReading(location_history, lat, lon) ==
    LET h == Append(location_history, Reading(lat, lon)) IN
    IF Len(h) > HistoryLimit THEN Tail(h) ELSE h

\* should_update_data whose fast rule asks for the time alone.
should_update_data_fast_untested(api, t, current_lat, current_lon) ==
    IF api.last_api_location.isNone THEN [api |-> api, ret |-> TRUE]
    ELSE LET distance_moved == calculate_distance_miles(current_lat, current_lon,
                                   api.last_api_location.lat, api.last_api_location.lon)
             time_since_last == t - api.last_api_time
             history == AppendReading(api.location_history, current_lat, current_lon)
             is_moving == detect_movement(history)
         IN [api |-> [api EXCEPT !.location_history = history],
             ret |-> \/ distance_moved > min_movement_threshold
                     \/ ~is_moving /\ time_since_last > stationary_update_interval
                     \/ is_moving /\ time_since_last > moving_update_interval
                     \/ time_since_last > fast_update_interval]

\* should_update_data whose moving rule does not look at the time.
should_update_data_moving_untimed(api, t, current_lat, current_lon) ==
    IF api.last_api_location.isNone THEN [api |-> api, ret |-> TRUE]
    ELSE LET distance_moved == calculate_distance_miles(current_lat, current_lon,
                                   api.last_api_location.lat, api.last_api_location.lon)
             time_since_last == t - api.last_api_time
             history == AppendReading(api.location_history, current_lat, current_lon)
             is_moving == detect_movement(history)
         IN [api |-> [api EXCEPT !.location_history = history],
             ret |-> \/ distance_moved > min_movement_threshold
                     \/ ~is_moving /\ time_since_last > stationary_update_interval
                     \/ is_moving
                     \/ time_since_last > fast_update_interval /\ distance_moved > FastMovementMiles]

\* should_update_data that applies the movement and time rules on a cold
\* start too, measuring from the position and time 0 of __init__.
should_update_data_no_cold_start(api, t, current_lat, current_lon) ==
    LET distance_moved == IF api.last_api_location.isNone THEN 0
                          ELSE calculate_distance_miles(current_lat, current_lon,
                                   api.last_api_location.lat, api.last_api_location.lon)
        time_since_last == t - api.last_api_time
        history == AppendReading(api.location_history, current_lat, current_lon)
        is_moving == detect_movement(history)
    IN [api |-> [api EXCEPT !.location_history = history],
        ret |-> \/ distance_moved > min_movement_threshold
                \/ ~is_moving /\ time_since_last > stationary_update_interval
                \/ is_moving /\ time_since_last > moving_update_interval
                \/ time_since_last > fast_update_interval /\ distance_moved > FastMovementMiles]

\* should_update_data: the decision and the object after it.
should_update_data(api, t, current_lat, current_lon) ==
    IF api.last_api_location.isNone THEN [api |-> api, ret |-> TRUE]
    ELSE LET distance_moved == calculate_distance_miles(current_lat, current_lon,
                                   api.last_api_location.lat, api.last_api_location.lon)
             time_since_last == t - api.last_api_time
             history == AppendReading(api.location_history, current_lat, current_lon)
             is_moving == detect_movement(history)
         IN [api |-> [api EXCEPT !.location_history = history],
             ret |-> \/ distance_moved > min_movement_threshold
                     \/ ~is_moving /\ time_since_last > stationary_update_interval
                     \/ is_moving /\ time_since_last > moving_update_interval
                     \/ time_since_last > fast_update_interval /\ distance_moved > FastMovementMiles]

\* update_api_tracking
update_api_tracking(api, t, lat, lon) ==
    [api EXCEPT !.last_api_location = Location(lat, lon), !.last_api_time = t]

-----------------------------------------------------------------------------
(* SpecDecide: should_update_data alone, applied to tracking states the     *)
(* object can be in: no fetch recorded, or a fetch recorded at Home at time *)
(* 0 with a history that is empty (nothing was asked since) or full.        *)

Home == 44977800

\* Home, and points 0.001 mi, just below and above 0.05 mi, 0.1 mi and
\* 0.5 mi north of it.
DecideLats == {Home + d : d \in {0, 15, 724, 725, 1448, 1449, 7241, 7242}}

\* Seconds since the recorded fetch, around the three intervals.
DecideTimes == {0, 15, 16, 60, 61, 300, 301}

\* Ten readings, the last three of them at rest or on the move.
FullHistories ==
    {[i \in 1..10 |-> Reading(Home, LonFixed)],
     [i \in 1..10 |-> Reading(IF i = 9 THEN Home + 725 ELSE Home, LonFixed)]}

MaxDecisions == 3

InitDecide ==
    /\ now \in DecideTimes
    /\ cache_dir = {}
    /\ \/ radio_api = InitRadioApi(FALSE)
       \/ \E h \in {<<>>} \cup FullHistories :
              radio_api = [update_api_tracking(InitRadioApi(FALSE), 0, Home, LonFixed)
                               EXCEPT !.location_history = h]
    /\ win = IdleWin
    /\ obs = [op |-> "none", n |-> 0]

ShouldUpdateData(lat) ==
    LET r == should_update_data(radio_api, now, lat, LonFixed) IN
    /\ obs.n < MaxDecisions
    /\ radio_api' = r.api
    /\ obs' = [op |-> "should_update_data", n |-> obs.n + 1, lat |-> lat,
               cold |-> radio_api.last_api_location.isNone,
               last |-> radio_api.last_api_location,
               since |-> now - radio_api.last_api_time,
               ret |-> r.ret]
    /\ UNCHANGED <<now, cache_dir, win>>

NextDecide == \E lat \in DecideLats : ShouldUpdateData(lat)

SpecDecide == InitDecide /\ [][NextDecide]_vars

\* The distance between the position asked for and the recorded fetch.
ObsDistance == calculate_distance_miles(obs.lat, LonFixed, obs.last.lat, obs.last.lon)

\* C3: with a fetch on record, should_update_data answers true exactly when
\* the position is more than 0.5 mi from the fetch, or detect_movement is
\* false and more than 300 s have passed, or detect_movement is true and
\* more than 60 s have passed, or more than 15 s have passed and the
\* position is more than 0.1 mi from the fetch.
C3_DecisionRule ==
    (obs.op = "should_update_data" /\ ~obs.cold) =>
        (obs.ret <=> \/ ObsDistance > 500000
                     \/ ~detect_movement(radio_api.location_history) /\ obs.since > 300
                     \/ detect_movement(radio_api.location_history) /\ obs.since > 60
                     \/ obs.since > 15 /\ ObsDistance > 100000)

\* A decision that the movement rule alone decides: 61 s after the fetch,
\* on the move, less than 0.1 mi from it, the answer is yes.
C3_Witness ==
    /\ obs.op = "should_update_data" /\ ~obs.cold
    /\ obs.since = 61 /\ ObsDistance < 100000
    /\ detect_movement(radio_api.location_history)
    /\ obs.ret

-----------------------------------------------------------------------------
(* The three data functions of RadioReferenceAPI (lines 473-683, 740-819) *)

(* A payload is a list of entries, an entry a number.  1..7 are the seven   *)
(* fallback_repeaters of get_repeaters_by_location (2 m and 70 cm, key      *)
(* 'call' and no 'call_sign'; 4 is the 'Little Falls Fire Department').     *)
(* Entries of records an earlier run left: 8 is a 162.550 MHz 'NOAA Weather *)
(* Radio' station with a call_sign, 9 a 6 m repeater described as '6m',     *)
(* 10 a repeater whose frequency is the text 'N/A'.  100 + e is entry e in  *)
(* the station format get_noaa_weather_radio converts to.                   *)

fallback_repeaters == <<1, 2, 3, 4, 5, 6, 7>>

\* any(keyword in searchable_text for keyword in weather_keywords)
is_emergency(e) == e \in {4, 8}
\* float(repeater.get('frequency', ...)) does not raise
FrequencyIsNumber(e) == e # 10
\* the frequency is in 144-148, 420-450 or 150-174 MHz
is_emergency_freq(e) == e \in 1..8
\* len(description) > 5
LongDescription(e) == e \in 1..8
\* is_noaa_keyword or is_noaa_frequency
IsNoaa(e) == e = 8
\* the converted station's 'call' is not empty
HasCallSign(e) == e = 8
converted_station(e) == 100 + e

\* The first occurrence of every entry, in order ("seen" of the two loops;
\* different entries differ in call sign or frequency).
Unique(s) ==
    LET first == {i \in 1..Len(s) : \A j \in 1..(i - 1) : s[j] # s[i]} IN
    [k \in 1..Cardinality(first) |->
        s[CHOOSE i \in first : Cardinality({j \in first : j < i}) = k - 1]]

\* The loops of get_skywarn_repeaters over all_repeaters: exc is the
\* exception float() raises, val the filtered list without duplicates.
SkywarnFilter(all_repeaters) ==
    IF \E i \in 1..Len(all_repeaters) : ~FrequencyIsNumber(all_repeaters[i])
    THEN [exc |-> "ValueError", val |-> <<>>]
    ELSE [exc |-> "none",
          val |-> Unique(SelectSeq(all_repeaters,
                     LAMBDA e : is_emergency(e) \/ (is_emergency_freq(e) /\ LongDescription(e))))]

\* converted_station of every entry of a list.
MapConverted(s) == [i \in 1..Len(s) |-> converted_station(s[i])]

\* The loops of get_noaa_weather_radio over all_repeaters.
NoaaFilter(all_repeaters) ==
    MapConverted(Unique(SelectSeq(all_repeaters, LAMBDA e : IsNoaa(e) /\ HasCallSign(e))))

(* The functions take the object as S = [dir, api], the time t, and what    *)
(* the environment decides during the call: online, the answer of           *)
(* is_online(), and rev, the order of os.listdir.  They give the object     *)
(* after the call (dir, api), the list returned (ret), whether seed data    *)
(* were created and the fetch recorded (fetched), and the decisions of      *)
(* should_update_data made on the way (decisions).  Each function is a      *)
(* chain of operators, one per stage, the later stage taking the values     *)
(* the earlier one computed.                                                *)

Decision(data_type, api, t, lat, answer) ==
    [dt |-> data_type, lat |-> lat, cold |-> api.last_api_location.isNone,
     last |-> api.last_api_location, since |-> t - api.last_api_time, ret |-> answer]

Answer(dir, api, list, fetched, decisions) ==
    [dir |-> dir, api |-> api, ret |-> list, fetched |-> fetched, decisions |-> decisions]

\* "not self.api_key or not self.is_online()" evaluated first by is_online.
KeyTestOnlineFirst(api) == [api EXCEPT !.is_online_called = TRUE]

\* "not self.api_key or not self.is_online()": is_online, and with it
\* requests.get, runs only when the key is set; is_online_called records
\* that it ran.
KeyTest(api) ==
    IF api.api_key THEN [api EXCEPT !.is_online_called = TRUE] ELSE api

\* get_repeaters_by_location that records a fetch also when it returns the
\* last known good data of line 497.
RepeatersTrackedOnLastKnown(S, t, lat, lon, location_key, online, su, d, cached_data, last_known) ==
    IF ~su.ret /\ ~cached_data.isNone THEN Answer(S.dir, su.api, cached_data.data, FALSE, d)
    ELSE IF ~S.api.api_key \/ ~online
    THEN Answer(S.dir, KeyTest(su.api), last_known, FALSE, d)
    ELSE IF last_known # <<>>
    THEN Answer(S.dir, update_api_tracking(KeyTest(su.api), t, lat, lon), last_known, FALSE, d)
    ELSE Answer(save_to_cache(S.dir, t, "repeaters", location_key, fallback_repeaters,
                              "get_repeaters_by_location"),
                update_api_tracking(KeyTest(su.api), t, lat, lon),
                fallback_repeaters, TRUE, d)

\* get_repeaters_by_location from line 478 on: su is the decision,
\* cached_data and last_known what the two reads give when they are made.
RepeatersAfterDecision(S, t, lat, lon, location_key, online, su, d, cached_data, last_known) ==
    IF ~su.ret /\ ~cached_data.isNone THEN Answer(S.dir, su.api, cached_data.data, FALSE, d)
    ELSE IF ~S.api.api_key \/ ~online
    THEN Answer(S.dir, KeyTest(su.api), last_known, FALSE, d)
    ELSE IF last_known # <<>> THEN Answer(S.dir, KeyTest(su.api), last_known, FALSE, d)
    ELSE Answer(save_to_cache(S.dir, t, "repeaters", location_key, fallback_repeaters,
                              "get_repeaters_by_location"),
                update_api_tracking(KeyTest(su.api), t, lat, lon),
                fallback_repeaters, TRUE, d)

RepeatersWithKey(S, t, lat, lon, location_key, online, rev, su) ==
    RepeatersAfterDecision(S, t, lat, lon, location_key, online, su,
        <<Decision("repeaters", S.api, t, lat, su.ret)>>,
        load_from_cache(S.dir, t, "repeaters", location_key, FALSE).val,
        load_last_known_good(S.dir, "repeaters", location_key, rev).val.data)

\* get_repeaters_by_location
get_repeaters_by_location(S, t, lat, lon, radius_miles, online, rev) ==
    RepeatersWithKey(S, t, lat, lon, RepeatersKey(lat, lon, radius_miles), online, rev,
                     should_update_data(S.api, t, lat, lon))

\* No test before the save: every result is saved.
AnyList(list) == TRUE
\* "if skywarn_repeaters:" / "if noaa_stations:", the test before the save.
NotEmpty(list) == list # <<>>

\* get_skywarn_repeaters from line 665 on: all is what
\* get_repeaters_by_location gave, skywarn_repeaters what the loop made of it.
SkywarnAfterFilter(t, location_key, d, all, skywarn_repeaters) ==
    IF skywarn_repeaters.exc = "none" /\ NotEmpty(skywarn_repeaters.val)
    THEN Answer(save_to_cache(all.dir, t, "skywarn", location_key, skywarn_repeaters.val,
                              "get_skywarn_repeaters"),
                all.api, skywarn_repeaters.val, all.fetched, d \o all.decisions)
    ELSE Answer(all.dir, all.api, <<>>, all.fetched, d \o all.decisions)

SkywarnAfterFetch(t, location_key, d, all) ==
    SkywarnAfterFilter(t, location_key, d, all, SkywarnFilter(all.ret))

\* get_skywarn_repeaters from line 615 on.
SkywarnAfterDecision(S, t, lat, lon, radius_miles, location_key, online, rev, su, d, cached_data) ==
    IF ~su.ret /\ ~cached_data.isNone THEN Answer(S.dir, su.api, cached_data.data, FALSE, d)
    ELSE IF ~S.api.api_key \/ ~online
    THEN Answer(S.dir, KeyTest(su.api),
                load_last_known_good(S.dir, "skywarn", location_key, rev).val.data, FALSE, d)
    ELSE SkywarnAfterFetch(t, location_key, d,
             get_repeaters_by_location([dir |-> S.dir, api |-> KeyTest(su.api)], t, lat, lon,
                                       radius_miles, online, rev))

SkywarnWithKey(S, t, lat, lon, radius_miles, location_key, online, rev, su) ==
    SkywarnAfterDecision(S, t, lat, lon, radius_miles, location_key, online, rev, su,
        <<Decision("skywarn", S.api, t, lat, su.ret)>>,
        load_from_cache(S.dir, t, "skywarn", location_key, FALSE).val)

\* get_skywarn_repeaters (radius_miles is 100 at its one call site)
get_skywarn_repeaters(S, t, lat, lon, radius_miles, online, rev) ==
    SkywarnWithKey(S, t, lat, lon, radius_miles, SkywarnKey(lat, lon, radius_miles),
                   online, rev, should_update_data(S.api, t, lat, lon))

\* get_noaa_weather_radio from line 795 on.
NoaaAfterFilter(t, location_key, rev, d, all, noaa_stations) ==
    IF NotEmpty(noaa_stations)
    THEN Answer(save_to_cache(all.dir, t, "noaa", location_key, noaa_stations,
                              "get_noaa_weather_radio"),
                all.api, noaa_stations, all.fetched, d \o all.decisions)
    ELSE Answer(all.dir, all.api,
                load_last_known_good(all.dir, "noaa", location_key, rev).val.data,
                all.fetched, d \o all.decisions)

NoaaAfterFetch(t, location_key, rev, d, all) ==
    NoaaAfterFilter(t, location_key, rev, d, all, NoaaFilter(all.ret))

\* get_noaa_weather_radio from line 745 on.
NoaaAfterDecision(S, t, lat, lon, radius_miles, location_key, online, rev, su, d, cached_data) ==
    IF ~su.ret /\ ~cached_data.isNone THEN Answer(S.dir, su.api, cached_data.data, FALSE, d)
    ELSE IF ~S.api.api_key \/ ~online
    THEN Answer(S.dir, KeyTest(su.api),
                load_last_known_good(S.dir, "noaa", location_key, rev).val.data, FALSE, d)
    ELSE NoaaAfterFetch(t, location_key, rev, d,
             get_repeaters_by_location([dir |-> S.dir, api |-> KeyTest(su.api)], t, lat, lon,
                                       radius_miles, online, rev))

NoaaWithKey(S, t, lat, lon, radius_miles, location_key, online, rev, su) ==
    NoaaAfterDecision(S, t, lat, lon, radius_miles, location_key, online, rev, su,
        <<Decision("noaa", S.api, t, lat, su.ret)>>,
        load_from_cache(S.dir, t, "noaa", location_key, FALSE).val)

\* get_noaa_weather_radio (radius_miles defaults to 200)
get_noaa_weather_radio(S, t, lat, lon, radius_miles, online, rev) ==
    NoaaWithKey(S, t, lat, lon, radius_miles, NoaaKey(lat, lon, radius_miles),
                online, rev, should_update_data(S.api, t, lat, lon))

-----------------------------------------------------------------------------
(* SpecApi: the three data functions called in any order, at positions      *)
(* around Home, while time passes and the network comes and goes.           *)

\* Home, and points 0.001 mi and 0.069 mi north of it.
ApiLats == {Home, Home + 15, Home + 1000}

\* The directory at start: empty, or one repeater record of an earlier run.
ApiInitialDirs ==
    {{}} \cup {{LeftFile("repeaters", Home, "ok", data)} : data \in {<<8, 9>>, <<10, 4>>, <<9>>}}

MaxOps == 4

InitApi ==
    /\ now = 0
    /\ cache_dir \in ApiInitialDirs
    /\ \E key \in BOOLEAN : radio_api = InitRadioApi(key)
    /\ win = IdleWin
    /\ obs = [op |-> "none", n |-> 0, decided |-> {}, lat |-> Home, decisions |-> <<>>,
              first |-> FALSE, ret |-> <<>>, fetched |-> FALSE, after_data |-> FALSE,
              data_lat |-> Home]

\* The operation obs describes was a get_repeaters_by_location call that
\* returned data.
ReturnedRepeaters == obs.op = "get_repeaters_by_location" /\ obs.ret # <<>>

\* What obs holds after a call of one of the three functions: the position
\* asked for, the list returned, the decisions made, whether the call's own
\* decision was the first one made for its data type, and whether the call
\* came right after a get_repeaters_by_location call that returned data
\* (and where that one was made).
ApiObs(name, data_type, lat, r) ==
    [op |-> name, n |-> obs.n + 1,
     decided |-> obs.decided \cup {r.decisions[i].dt : i \in 1..Len(r.decisions)},
     lat |-> lat,
     decisions |-> r.decisions,
     first |-> data_type \notin obs.decided,
     ret |-> r.ret, fetched |-> r.fetched,
     after_data |-> ReturnedRepeaters,
     data_lat |-> IF ReturnedRepeaters THEN obs.lat ELSE Home]

\* The object and obs after a call of one of the three functions.
ApiReturns(name, data_type, lat, r) ==
    /\ cache_dir' = r.dir
    /\ radio_api' = r.api
    /\ obs' = ApiObs(name, data_type, lat, r)
    /\ UNCHANGED <<now, win>>

\* The answers is_online() can give during a call: without an API key the
\* question is never asked.
OnlineAnswers == IF radio_api.api_key THEN BOOLEAN ELSE {FALSE}

\* The orders os.listdir can give during a call: with fewer than two
\* repeater files there is one order only.
ListingOrders ==
    IF Cardinality({f \in cache_dir : f.name.dt = "repeaters"}) > 1 THEN BOOLEAN ELSE {FALSE}

GetRepeatersByLocation(lat, online, rev) ==
    /\ obs.n < MaxOps /\ online \in OnlineAnswers /\ rev \in ListingOrders
    /\ ApiReturns("get_repeaters_by_location", "repeaters", lat,
                  get_repeaters_by_location([dir |-> cache_dir, api |-> radio_api], now,
                                            lat, LonFixed, 200, online, rev))

GetSkywarnRepeaters(lat, online, rev) ==
    /\ obs.n < MaxOps /\ online \in OnlineAnswers /\ rev \in ListingOrders
    /\ ApiReturns("get_skywarn_repeaters", "skywarn", lat,
                  get_skywarn_repeaters([dir |-> cache_dir, api |-> radio_api], now,
                                        lat, LonFixed, 100, online, rev))

GetNoaaWeatherRadio(lat, online, rev) ==
    /\ obs.n < MaxOps /\ online \in OnlineAnswers /\ rev \in ListingOrders
    /\ ApiReturns("get_noaa_weather_radio", "noaa", lat,
                  get_noaa_weather_radio([dir |-> cache_dir, api |-> radio_api], now,
                                         lat, LonFixed, 200, online, rev))

ApiClearAllCache ==
    /\ obs.n < MaxOps
    /\ cache_dir # {}
    /\ cache_dir' = clear_all_cache(cache_dir)
    /\ obs' = [obs EXCEPT !.op = "clear_all_cache", !.n = obs.n + 1, !.decisions = <<>>,
                          !.first = FALSE, !.ret = <<>>, !.fetched = FALSE,
                          !.after_data = FALSE, !.data_lat = Home]
    /\ UNCHANGED <<now, radio_api, win>>

ApiTimePasses(seconds) ==
    /\ obs.n < MaxOps
    /\ now' = now + seconds
    /\ obs' = [obs EXCEPT !.op = "time", !.n = obs.n + 1, !.decisions = <<>>,
                          !.first = FALSE, !.ret = <<>>, !.fetched = FALSE,
                          !.after_data = FALSE, !.data_lat = Home]
    /\ UNCHANGED <<cache_dir, radio_api, win>>

NextApi ==
    \/ \E lat \in ApiLats, online \in BOOLEAN, rev \in BOOLEAN :
           GetRepeatersByLocation(lat, online, rev)
    \/ \E lat \in ApiLats, online \in BOOLEAN, rev \in BOOLEAN :
           GetSkywarnRepeaters(lat, online, rev)
    \/ \E lat \in ApiLats, online \in BOOLEAN, rev \in BOOLEAN :
           GetNoaaWeatherRadio(lat, online, rev)
    \/ ApiClearAllCache
    \/ \E seconds \in {15, 300} : ApiTimePasses(seconds)

SpecApi == InitApi /\ [][NextApi]_vars

-----------------------------------------------------------------------------
(* Claims about the decisions and the writes of the data functions, checked *)
(* under SpecApi                                                            *)

ObsIsApiCall ==
    obs.op \in {"get_repeaters_by_location", "get_skywarn_repeaters", "get_noaa_weather_radio"}

\* The decisions the last call made.
ObsDecisions == {obs.decisions[i] : i \in 1..Len(obs.decisions)}

\* C2, as stated: the first decision made for a data type is yes, whatever
\* was fetched for the other data types before.
C2_FirstDecisionPerType ==
    (ObsIsApiCall /\ obs.first) => obs.decisions[1].ret

\* C2, amended: a decision made while no fetch at all is on record is yes,
\* for every data type and at every position.
C2_ColdStartIsYes ==
    \A d \in ObsDecisions : d.cold => d.ret

\* A first SKYWARN request away from Home, nothing on record: the answer is yes.
C2_Witness ==
    /\ obs.op = "get_skywarn_repeaters" /\ obs.first
    /\ obs.lat # Home
    /\ obs.decisions[1].cold /\ obs.decisions[1].ret

\* About 0.001 mi (between 0.0005 and 0.0015 mi).
ThousandthOfAMile(distance) == distance >= 500 /\ distance <= 1500

\* C4, as stated: right after a get_repeaters_by_location call that returned
\* data (no time has passed), the decision for a position 0.001 mi from the
\* position of that call is no.
C4_NoAfterReturnedData ==
    (/\ ObsIsApiCall /\ obs.after_data
     /\ ThousandthOfAMile(calculate_distance_miles(obs.lat, LonFixed, obs.data_lat, LonFixed)))
        => ~obs.decisions[1].ret

\* C4, amended: with a fetch on record (seed data were created and
\* update_api_tracking ran), a decision made within 15 s of it for a position
\* 0.001 mi from it is no.
C4_NoWithinFastInterval ==
    \A d \in ObsDecisions :
        (/\ ~d.cold /\ d.since <= 15
         /\ ThousandthOfAMile(calculate_distance_miles(d.lat, LonFixed, d.last.lat, d.last.lon)))
            => ~d.ret

\* Such a decision, 15 s after the fetch and with readings on the move.
C4_Witness ==
    \E d \in ObsDecisions :
        /\ ~d.cold /\ d.since = 15
        /\ ThousandthOfAMile(calculate_distance_miles(d.lat, LonFixed, d.last.lat, d.last.lon))
        /\ detect_movement(radio_api.location_history)
        /\ ~d.ret

ApiWriters == {"get_repeaters_by_location", "get_skywarn_repeaters", "get_noaa_weather_radio"}

\* C10: every record in the cache that one of the three data functions
\* wrote has a payload that is not empty.
C10_NoEmptyPayloadWritten ==
    \A f \in cache_dir : f.writer \in ApiWriters => f.data # <<>>

\* A SKYWARN request that went to the network path, found no SKYWARN
\* repeater in what it got, returned the empty list and wrote no record.
C10_Witness ==
    /\ obs.op = "get_skywarn_repeaters" /\ Len(obs.decisions) = 2
    /\ obs.ret = <<>>
    /\ \A f \in cache_dir : f.name.dt # "skywarn"
    /\ \E f \in cache_dir : f.name.dt = "repeaters" /\ f.data # <<>>

-----------------------------------------------------------------------------
(* The window (EnhancedGPSWindow): which data it refreshes on a GPS fix     *)

(* win holds the fields that decide what is refreshed and fetched; the      *)
(* tables, and the tags and texts shown with them, are left out.  Speeds    *)
(* are integers in mm/s.  A handler works on X = [win, dir, api, log]: the  *)
(* window, the cache directory, the RadioReferenceAPI object, and the log   *)
(* of what the handler did so far (the displays redrawn, and the outcome of *)
(* every populate_all_amateur_data call: "noattempt", "failed" or "ok").    *)

cached_api_radius == 200
amateur_data_cache_timeout == 86400
stationary_threshold == 10000          \* 0.01 miles
cache_region_radius == 150000000       \* 150 miles
WALKING_SPEED_THRESHOLD == 1500        \* 1.5 m/s
ARMER_SKYWARN_INTERVAL == 25
AMATEUR_INTERVAL == 35
MIN_SPEED_THRESHOLD == 500             \* 0.5 m/s
TrackingMiles == 1000                  \* the 0.001 of "distance_moved > 0.001"
ForceUpdateMiles == 100000             \* the 0.1 of "distance_moved > 0.1"
SkywarnRefreshMiles == 10000           \* the 0.01 of populate_skywarn_data
BandRefreshMiles == 1000000            \* the 1.0 of populate_all_amateur_data
UsefulEntries == 3                     \* "len(api_data) > 3"
SkywarnRadius == 100                   \* radius_miles=100 of get_skywarn_repeaters

\* A time stamp that may be None.
NoTime == [isNone |-> TRUE, t |-> 0]
Time(t) == [isNone |-> FALSE, t |-> t]

\* EnhancedGPSWindow.__init__, before create_tabs.  manual_location_mode and
\* last_gps (last_gps_lat, last_gps_lon) are attributes the source creates
\* later and tests with hasattr: FALSE and NoLocation stand for "not set".
NewWin ==
    [started |-> TRUE,
     last_lat |-> Home, last_lon |-> LonFixed,
     cached_api_data |-> NoneVal,
     cached_api_location |-> NoLocation,
     cached_api_timestamp |-> NoTime,
     is_stationary |-> FALSE,
     last_known_position |-> NoLocation,
     last_skywarn_update |-> 0,
     last_amateur_update |-> 0,
     is_vehicle_speed |-> FALSE,
     cached_skywarn_data |-> NoneVal,
     cached_skywarn_location |-> NoLocation,
     skywarn_is_stationary |-> FALSE,
     last_repeater_update_location |-> NoLocation,
     manual_location_mode |-> FALSE,
     last_gps |-> NoLocation]

EmptyLog == [refreshed |-> {}, amateur |-> <<>>]

Redrawn(X, display) == [X EXCEPT !.log.refreshed = @ \cup {display}]

\* display_closest_sites and populate_noaa_frequency_data read static
\* tables and the position; they change no field of the model.
display_closest_sites(X) == Redrawn(X, "towers")
populate_noaa_frequency_data(X) == Redrawn(X, "noaa")

\* "if distance > 0.01" of populate_skywarn_data
SkywarnMoved(W) ==
    haversine(W.last_lat, W.last_lon,
              W.cached_skywarn_location.lat, W.cached_skywarn_location.lon) > SkywarnRefreshMiles

\* should_refresh of populate_skywarn_data
SkywarnShouldRefresh(W) ==
    \/ W.cached_skywarn_data.isNone
    \/ ~W.cached_skywarn_location.isNone /\ SkywarnMoved(W)

\* skywarn_is_stationary after the test of the distance
SkywarnMode(W) ==
    IF W.cached_skywarn_data.isNone \/ W.cached_skywarn_location.isNone THEN W
    ELSE [W EXCEPT !.skywarn_is_stationary = ~SkywarnMoved(W)]

SkywarnKeep(W, data) ==
    [W EXCEPT !.cached_skywarn_data = ListVal(data),
              !.cached_skywarn_location = Location(W.last_lat, W.last_lon)]

\* populate_skywarn_data after get_skywarn_repeaters gave r: its list is
\* kept, or else what load_from_cache gives for the key without prefix.
SkywarnFetched(X, t, r, cached) ==
    [X EXCEPT !.dir = r.dir, !.api = r.api,
              !.win = IF r.ret # <<>> THEN SkywarnKeep(SkywarnMode(X.win), r.ret)
                      ELSE IF ~cached.isNone /\ cached.data # <<>>
                           THEN SkywarnKeep(SkywarnMode(X.win), cached.data)
                      ELSE SkywarnMode(X.win)]

SkywarnFetch(X, t, r) ==
    SkywarnFetched(X, t, r,
        load_from_cache(r.dir, t, "skywarn",
                        RepeatersKey(X.win.last_lat, X.win.last_lon, 100), FALSE).val)

\* populate_skywarn_data, up to the merge with the static list.
populate_skywarn_data(X, t, online, rev) ==
    Redrawn(
        IF ~SkywarnShouldRefresh(X.win) THEN [X EXCEPT !.win = SkywarnMode(X.win)]
        ELSE SkywarnFetch(X, t,
                 get_skywarn_repeaters([dir |-> X.dir, api |-> X.api], t,
                                       X.win.last_lat, X.win.last_lon,
                                       SkywarnRadius, online, rev)),
        "skywarn")

\* A regional cache that expires after twelve hours.
AmateurExpiredAfterHalfADay(W, t) ==
    ~W.cached_api_timestamp.isNone /\ t - W.cached_api_timestamp.t > 43200

\* The regional cache is older than amateur_data_cache_timeout.
AmateurExpired(W, t) ==
    ~W.cached_api_timestamp.isNone /\ t - W.cached_api_timestamp.t > amateur_data_cache_timeout

\* The position is outside the cached region.
AmateurOutside(W) ==
    haversine(W.last_lat, W.last_lon,
              W.cached_api_location.lat, W.cached_api_location.lon) > cache_region_radius

\* should_refresh of populate_all_amateur_data
AmateurShouldRefresh(W, t) ==
    \/ W.cached_api_data.isNone
    \/ AmateurExpired(W, t)
    \/ ~W.cached_api_location.isNone /\ AmateurOutside(W)

\* is_stationary and last_known_position after the tests (force_band_refresh,
\* which the handler may set and populate_band_data clears before the
\* handler returns, is left out).
AmateurTrack(W, t) ==
    [W EXCEPT
       !.is_stationary =
           IF /\ ~W.cached_api_data.isNone /\ ~AmateurExpired(W, t)
              /\ ~W.cached_api_location.isNone /\ ~AmateurOutside(W)
              /\ ~W.last_known_position.isNone
           THEN haversine(W.last_lat, W.last_lon,
                          W.last_known_position.lat, W.last_known_position.lon)
                    < stationary_threshold
           ELSE @,
       !.last_known_position = Location(W.last_lat, W.last_lon)]

\* "if api_data and len(api_data) > 3"
Useful(api_data) == api_data # <<>> /\ Len(api_data) > UsefulEntries

\* populate_all_amateur_data after get_repeaters_by_location gave r.
AmateurFetched(X, t, r) ==
    [X EXCEPT
       !.dir = r.dir, !.api = r.api,
       !.win = IF Useful(r.ret)
               THEN [AmateurTrack(X.win, t) EXCEPT
                        !.cached_api_data = ListVal(r.ret),
                        !.cached_api_location = Location(X.win.last_lat, X.win.last_lon),
                        !.cached_api_timestamp = Time(t)]
               ELSE [AmateurTrack(X.win, t) EXCEPT !.cached_api_data = ListVal(<<>>)],
       !.log.amateur = Append(@, IF Useful(r.ret) THEN "ok" ELSE "failed")]

\* populate_all_amateur_data, up to the static band lists.
populate_all_amateur_data(X, t, online, rev) ==
    Redrawn(
        IF AmateurShouldRefresh(X.win, t) /\ X.api.api_key
        THEN AmateurFetched(X, t,
                 get_repeaters_by_location([dir |-> X.dir, api |-> X.api], t,
                                           X.win.last_lat, X.win.last_lon,
                                           cached_api_radius, online, rev))
        ELSE [X EXCEPT !.win = AmateurTrack(X.win, t),
                       !.log.amateur = Append(@, "noattempt")],
        "amateur")

\* The four refreshes update_gps_data and refresh_towers make in a row.
RefreshAll(X, t, online, rev) ==
    populate_all_amateur_data(
        populate_noaa_frequency_data(
            populate_skywarn_data(display_closest_sites(X), t, online, rev)),
        t, online, rev)

\* The time stamps update_gps_data sets after a refresh.
Stamped(X, t, skywarn, amateur) ==
    [X EXCEPT !.win.last_skywarn_update = IF skywarn THEN t ELSE @,
              !.win.last_amateur_update = IF amateur THEN t ELSE @]

\* update_gps_data, lines 3546-3586: the position and the speed regime.
GpsStored(X, latitude, longitude, speed) ==
    [X EXCEPT !.win.last_lat = latitude, !.win.last_lon = longitude,
              !.win.last_gps = Location(latitude, longitude),
              !.win.is_vehicle_speed =
                  IF speed >= MIN_SPEED_THRESHOLD
                  THEN speed >= WALKING_SPEED_THRESHOLD ELSE FALSE]

\* Lines 3705-3713: the first fix.
FirstFix(X, t, online, rev) ==
    [Stamped(populate_all_amateur_data(
                 populate_noaa_frequency_data(populate_skywarn_data(X, t, online, rev)),
                 t, online, rev),
             t, TRUE, TRUE)
        EXCEPT !.win.last_repeater_update_location = Location(X.win.last_lat, X.win.last_lon)]

\* Lines 3721-3722: "Always update location tracking when we have any movement".
Tracked(X, distance_moved) ==
    IF distance_moved > TrackingMiles
    THEN [X EXCEPT !.win.last_repeater_update_location = Location(X.win.last_lat, X.win.last_lon)]
    ELSE X

\* Lines 3729-3734, 3737-3740 and 3743-3750: vehicle speed.
SkywarnTimer(X, t, online, rev) ==
    IF t - X.win.last_skywarn_update >= ARMER_SKYWARN_INTERVAL
    THEN Stamped(populate_noaa_frequency_data(
                     populate_skywarn_data(display_closest_sites(X), t, online, rev)),
                 t, TRUE, FALSE)
    ELSE X

AmateurTimer(X, t, online, rev) ==
    IF t - X.win.last_amateur_update >= AMATEUR_INTERVAL
    THEN Stamped(populate_all_amateur_data(X, t, online, rev), t, FALSE, TRUE)
    ELSE X

ForcedUpdate(X, t, distance_moved, online, rev) ==
    IF distance_moved > ForceUpdateMiles
    THEN Stamped(RefreshAll(X, t, online, rev), t, TRUE, TRUE)
    ELSE X

\* Lines 3753-3779: walking speed or stationary.
WalkingUpdate(X, t, distance_moved, online, rev) ==
    IF distance_moved > stationary_threshold
    THEN Redrawn(Stamped(RefreshAll(X, t, online, rev), t, TRUE, TRUE), "bands")
    ELSE X

\* Lines 3715-3779, X holding the fix and distance_moved its distance from
\* last_repeater_update_location.
MotionAwareUpdate(X, t, distance_moved, online, rev) ==
    IF X.win.is_vehicle_speed
    THEN ForcedUpdate(AmateurTimer(SkywarnTimer(Tracked(X, distance_moved), t, online, rev),
                                   t, online, rev),
                      t, distance_moved, online, rev)
    ELSE WalkingUpdate(Tracked(X, distance_moved), t, distance_moved, online, rev)

\* update_gps_data: the part that decides what is refreshed (lines 3540-3586
\* and 3702-3779).
update_gps_data(X, t, latitude, longitude, speed, online, rev) ==
    IF X.win.last_repeater_update_location.isNone
    THEN FirstFix(GpsStored(X, latitude, longitude, speed), t, online, rev)
    ELSE MotionAwareUpdate(GpsStored(X, latitude, longitude, speed), t,
                           haversine(latitude, longitude,
                                     X.win.last_repeater_update_location.lat,
                                     X.win.last_repeater_update_location.lon),
                           online, rev)

\* refresh_towers, the Refresh button.
refresh_towers(X, t, online, rev) == RefreshAll(X, t, online, rev)

\* EnhancedGPSWindow.__init__: the fields, the cache cleared when the
\* configuration asks for it, and the two populate calls of create_tabs.
create_window(X, t, force_refresh, online, rev) ==
    populate_all_amateur_data(
        populate_skywarn_data(
            [X EXCEPT !.win = NewWin,
                      !.dir = IF force_refresh THEN clear_all_cache(X.dir) ELSE X.dir],
            t, online, rev),
        t, online, rev)

-----------------------------------------------------------------------------
(* Spec: the window from its creation on, receiving GPS fixes around Home   *)
(* on foot and by car, while time passes and the network comes and goes.    *)

\* Home, and points 0.0055 mi and 0.011 mi north of it.
FixLats == {Home, Home + 80, Home + 160}

\* Standing (below the noise threshold), walking, and vehicle speed.
FixSpeeds == {400, 1000, 1500}

WinInitialDirs == {{}, {LeftFile("repeaters", Home, "ok", <<8, 9>>)}}

MaxEvents == 4

Init ==
    /\ now = 0
    /\ cache_dir \in WinInitialDirs
    /\ \E key \in BOOLEAN : radio_api = InitRadioApi(key)
    /\ win = IdleWin
    /\ obs = [op |-> "none", n |-> 0, lat |-> Home, speed |-> 0, first_fix |-> FALSE,
              refreshed |-> {}, amateur |-> <<>>,
              failed_before |-> FALSE, failed |-> FALSE,
              refresh_pos_before |-> NoLocation, refresh_pos |-> NoLocation]

AllFour == {"towers", "skywarn", "noaa", "amateur"}
RepeaterDisplays == {"skywarn", "noaa", "amateur"}

\* What obs holds after a handler: what it was given, whether it found no
\* last_repeater_update_location (the first fix), what its log says,
\* whether the last populate_all_amateur_data call so far was a failed
\* fetch (before and after the handler), and the position at which the
\* SKYWARN, NOAA and amateur data were last refreshed together (before and
\* after the handler).
WinObs(name, lat, speed, X) ==
    [op |-> name, n |-> obs.n + 1, lat |-> lat, speed |-> speed,
     first_fix |-> win.started /\ win.last_repeater_update_location.isNone,
     refreshed |-> X.log.refreshed, amateur |-> X.log.amateur,
     failed_before |-> obs.failed,
     failed |-> IF X.log.amateur = <<>> THEN obs.failed
                ELSE X.log.amateur[Len(X.log.amateur)] = "failed",
     refresh_pos_before |-> obs.refresh_pos,
     refresh_pos |-> IF RepeaterDisplays \subseteq X.log.refreshed
                     THEN Location(X.win.last_lat, X.win.last_lon)
                     ELSE obs.refresh_pos]

Here == [win |-> win, dir |-> cache_dir, api |-> radio_api, log |-> EmptyLog]

\* The program and obs after a handler of the window.
WinReturns(name, lat, speed, X) ==
    /\ win' = X.win /\ cache_dir' = X.dir /\ radio_api' = X.api
    /\ obs' = WinObs(name, lat, speed, X)
    /\ UNCHANGED now

CreateWindow(force_refresh, online, rev) ==
    /\ ~win.started /\ online \in OnlineAnswers /\ rev \in ListingOrders
    /\ WinReturns("create_window", Home, 0,
                  create_window(Here, now, force_refresh, online, rev))

UpdateGpsData(latitude, speed, online, rev) ==
    /\ win.started /\ obs.n < MaxEvents + 1
    /\ online \in OnlineAnswers /\ rev \in ListingOrders
    /\ WinReturns("update_gps_data", latitude, speed,
                  update_gps_data(Here, now, latitude, LonFixed, speed, online, rev))

RefreshTowers(online, rev) ==
    /\ win.started /\ obs.n < MaxEvents + 1
    /\ online \in OnlineAnswers /\ rev \in ListingOrders
    /\ WinReturns("refresh_towers", win.last_lat, 0,
                  refresh_towers(Here, now, online, rev))

TimePasses(seconds) ==
    /\ win.started /\ obs.n < MaxEvents + 1
    /\ now' = now + seconds
    /\ obs' = [obs EXCEPT !.op = "time", !.n = obs.n + 1, !.refreshed = {}, !.amateur = <<>>,
                          !.first_fix = FALSE,
                          !.failed_before = obs.failed,
                          !.refresh_pos_before = obs.refresh_pos]
    /\ UNCHANGED <<cache_dir, radio_api, win>>

Next ==
    \/ \E force_refresh \in BOOLEAN, online \in BOOLEAN, rev \in BOOLEAN :
           CreateWindow(force_refresh, online, rev)
    \/ \E latitude \in FixLats, speed \in FixSpeeds,
          online \in BOOLEAN, rev \in BOOLEAN :
           UpdateGpsData(latitude, speed, online, rev)
    \/ \E online \in BOOLEAN, rev \in BOOLEAN : RefreshTowers(online, rev)
    \/ \E seconds \in {30} : TimePasses(seconds)

Spec == Init /\ [][Next]_vars

-----------------------------------------------------------------------------
(* Claims about the window, checked under Spec *)

\* The outcomes of the populate_all_amateur_data calls of the last handler,
\* after the outcome of the call before them.
AmateurOutcomes ==
    <<IF obs.failed_before THEN "failed" ELSE "earlier">> \o obs.amateur

\* C1: with an API key configured, the populate_all_amateur_data call that
\* follows a failed fetch (one that gave 3 or fewer entries) attempts the
\* fetch again.
C1_RetryAfterFailedFetch ==
    radio_api.api_key =>
        \A i \in 1..(Len(AmateurOutcomes) - 1) :
            AmateurOutcomes[i] = "failed" => AmateurOutcomes[i + 1] # "noattempt"

\* C5: a fix that is not the first one, taken below 1.5 m/s more than
\* 0.01 mi from the position where the SKYWARN, NOAA and amateur data were
\* last refreshed, refreshes the towers and these three.
C5_WalkingRefreshAfterMove ==
    (/\ obs.op = "update_gps_data" /\ ~obs.first_fix
     /\ obs.speed < 1500
     /\ ~obs.refresh_pos_before.isNone
     /\ haversine(obs.lat, LonFixed,
                  obs.refresh_pos_before.lat, obs.refresh_pos_before.lon) > 10000)
        => AllFour \subseteq obs.refreshed

-----------------------------------------------------------------------------
(* SpecRegion: the window over hours and across the cached region.  The     *)
(* handlers are those of Spec; the fixes lie a mile and more apart and the  *)
(* clock moves by half days.                                                *)

\* Home, 1.1 mi north of it, and 152 mi north of it.
RegionLats == {Home, Home + 16000, Home + 2200000}

\* Walking and vehicle speed.
RegionSpeeds == {1000, 1500}

\* Twelve hours, and a second more.
RegionTimes == {43200, 43201}

NextRegion ==
    \/ \E force_refresh \in {FALSE}, online \in BOOLEAN, rev \in BOOLEAN :
           CreateWindow(force_refresh, online, rev)
    \/ \E latitude \in RegionLats, speed \in RegionSpeeds,
          online \in BOOLEAN, rev \in BOOLEAN :
           UpdateGpsData(latitude, speed, online, rev)
    \/ \E online \in BOOLEAN, rev \in BOOLEAN : RefreshTowers(online, rev)
    \/ \E seconds \in RegionTimes : TimePasses(seconds)

SpecRegion == Init /\ [][NextRegion]_vars

\* The regional cache as a handler finds it, seen from the position lat at
\* time now: none yet, older than 24 h, more than 150 mi from its center.
NoRegionalCache == ~win.started \/ win.cached_api_data.isNone

RegionalCacheOlderThanADay ==
    /\ win.started /\ ~win.cached_api_timestamp.isNone
    /\ now - win.cached_api_timestamp.t > 24 * 3600

OutsideRegion(lat) ==
    /\ win.started /\ ~win.cached_api_location.isNone
    /\ haversine(lat, LonFixed, win.cached_api_location.lat,
                 win.cached_api_location.lon) > 150 * 1000000

\* Whether the i-th populate_all_amateur_data call of a handler, whose
\* calls had the outcomes in outcomes, may fetch: the first call finds the
\* cache as the handler found it, a later call finds it as the call before
\* it left it (made and centered here when that call fetched with success,
\* existing with its old age and center otherwise).
MayFetch(outcomes, i, lat) ==
    IF i = 1 THEN NoRegionalCache \/ RegionalCacheOlderThanADay \/ OutsideRegion(lat)
    ELSE /\ outcomes[i - 1] # "ok"
         /\ \/ RegionalCacheOlderThanADay \/ OutsideRegion(lat)
            \/ outcomes[i - 1] = "noattempt" /\ NoRegionalCache

\* C11: populate_all_amateur_data fetches only when there is no regional
\* cache, when the cache is older than 24 h, or when the position is more
\* than 150 mi from the cache center; so while a cache made by a successful
\* fetch is younger than 24 h and the position within 150 mi of its center,
\* it does not fetch.
C11_FetchOnlyOutsideRegionOrExpired ==
    [][\A i \in 1..Len(obs'.amateur) :
           obs'.amateur[i] # "noattempt" => MayFetch(obs'.amateur, i, obs'.lat)]_vars

\* A fix 1.1 mi from the center of a regional cache that a successful fetch
\* made exactly 24 h ago: nothing is fetched.
C11_Witness ==
    /\ obs.op = "update_gps_data" /\ radio_api.api_key
    /\ ~win.cached_api_data.isNone /\ win.cached_api_data.data # <<>>
    /\ now - win.cached_api_timestamp.t = 86400
    /\ win.last_lat = win.cached_api_location.lat + 16000
    /\ obs.amateur = <<"noattempt">>

-----------------------------------------------------------------------------
(* SpecWalk: the window of a user who walks north, every fix a little less  *)
(* than 0.01 mi (stationary_threshold) beyond the one before.               *)

\* 140 microdegrees of latitude: 0.00967 mi.
WalkStep == 140

\* Walking speed, above the noise threshold and below vehicle speed.
WalkSpeed == 1000

MaxWalk == 106

\* update_gps_data with the next fix of the walk.
UpdateGpsDataOnFoot(online, rev) ==
    /\ win.started /\ obs.n < MaxWalk
    /\ online \in OnlineAnswers /\ rev \in ListingOrders
    /\ WinReturns("update_gps_data", win.last_lat + WalkStep, WalkSpeed,
                  update_gps_data(Here, now, win.last_lat + WalkStep, LonFixed,
                                  WalkSpeed, online, rev))

NextWalk ==
    \/ \E force_refresh \in {FALSE}, online \in BOOLEAN, rev \in BOOLEAN :
           CreateWindow(force_refresh, online, rev)
    \/ \E online \in BOOLEAN, rev \in BOOLEAN : UpdateGpsDataOnFoot(online, rev)

SpecWalk == Init /\ [][NextWalk]_vars

\* The handler finds a regional cache that is not older than 24 h and whose
\* center is within 150 mi of the position lat.
InsideCachedRegion(lat) ==
    /\ win.started
    /\ ~NoRegionalCache /\ ~RegionalCacheOlderThanADay
    /\ ~win.cached_api_location.isNone /\ ~OutsideRegion(lat)

\* The position lat is more than 1 mile from the position of the last
\* populate_all_amateur_data call, which sorted the band tables for it.
MileFromLastSort(lat) ==
    /\ win.started /\ ~win.last_known_position.isNone
    /\ haversine(lat, LonFixed, win.last_known_position.lat,
                 win.last_known_position.lon) > 1000000

\* C12: inside the cached region, a GPS update at a position more than
\* 1 mile from the position the band tables were last sorted for sorts them
\* again (populate_all_amateur_data runs, and with it populate_band_data
\* for every band), and fetches nothing.
C12_ResortAfterAMile ==
    [][(/\ obs'.op = "update_gps_data"
        /\ InsideCachedRegion(obs'.lat) /\ MileFromLastSort(obs'.lat))
          => /\ "amateur" \in obs'.refreshed
             /\ \A i \in 1..Len(obs'.amateur) : obs'.amateur[i] = "noattempt"]_vars

-----------------------------------------------------------------------------
(* The tables of the window: what populate_band_data and the second half of *)
(* populate_skywarn_data show                                               *)

(* Frequencies are integers in kHz.  An entry of fetched data is one of the *)
(* numbers above; of the seven entries of fallback_repeaters the model      *)
(* keeps the 'call', the 'frequency' and the 'lat'.  11 to 23 are the       *)
(* entries of a regional record that holds thirteen 70 cm repeaters, with   *)
(* call signs no static list has.  A row of a table is a record: where it   *)
(* comes from ("api" or "static"), its call sign, its frequency and its     *)
(* latitude.                                                                *)

SeedCalls == <<"W0BTO", "KC0TZF", "W0AIH", "K0LFD", "KC0YHM", "N0GWS", "W0RTN">>
SeedFrequencies == <<146760, 147300, 444025, 145350, 442750, 145230, 444550>>
SeedLats == <<46358300, 45976300, 46358300, 45976300, 46481600, 47239900, 45537200>>

RegionalRecord == [i \in 1..13 |-> 10 + i]

\* repeater['call']
EntryCall(e) ==
    IF e \in 1..7 THEN SeedCalls[e]
    ELSE IF e = 8 THEN "WXK41" ELSE IF e = 9 THEN "W0SIX" ELSE IF e = 10 THEN "K0NA"
    ELSE "R70"

\* float(repeater.get('frequency', ...)), where it is a number
EntryFrequency(e) ==
    IF e \in 1..7 THEN SeedFrequencies[e]
    ELSE IF e = 8 THEN 162550 ELSE IF e = 9 THEN 53110
    ELSE 442000 + 25 * (e - 10)

\* repeater['lat']
EntryLat(e) == IF e \in 1..7 THEN SeedLats[e] ELSE Home

Static(call, output, lat) ==
    [origin |-> "static", call |-> call, output |-> output, lat |-> lat]

ApiRow(e) ==
    [origin |-> "api", call |-> EntryCall(e), output |-> EntryFrequency(e), lat |-> EntryLat(e)]

amateur_10m_data ==
    <<Static("W0EXP", 29620, 44977800),
      Static("K0HF", 29640, 44953700)>>

amateur_6m_data ==
    <<Static("W0UJ", 53110, 46356000),
      Static("W0VHF", 53290, 44977800),
      Static("K0SIX", 53370, 46786700),
      Static("WB0SIX", 53430, 44012100)>>

amateur_2m_data ==
    <<Static("W0UJ", 145130, 46356000),
      Static("W0UJ", 147225, 46356000),
      Static("W0UJ", 147030, 46634700),
      Static("W0REA", 147090, 46601400),
      Static("N0CRW", 146985, 46356000),
      Static("W0BTO", 146760, 46358300),
      Static("W0RAN", 146850, 46358000),
      Static("KC0FBZ", 146940, 46481600),
      Static("W0CVZ", 147060, 46358300),
      Static("KC0YHM", 146820, 46481600),
      Static("KC0TZF", 147300, 45976300),
      Static("K0LFD", 145350, 45976300),
      Static("WB0CVZ", 147120, 45989600),
      Static("N0GWS", 145230, 47239900),
      Static("WA0TDA", 147330, 47237800),
      Static("KC0OOO", 145470, 45557900),
      Static("W0RTN", 146820, 45537200),
      Static("KC0ALV", 147390, 45736100),
      Static("N0BVE", 146670, 47473700),
      Static("KC0BSU", 147180, 47473700),
      Static("W0MSP", 145310, 44977800),
      Static("KC9SPG", 146520, 44953700),
      Static("W0UJ", 145490, 44953700),
      Static("K0TRC", 147165, 44953700),
      Static("WB0RUR", 146520, 44977800),
      Static("WA0ZQG", 145230, 44977800),
      Static("WB0CMZ", 145430, 44900000),
      Static("K0USC", 146760, 46786700),
      Static("WD0EKR", 145130, 46786700),
      Static("W0HSC", 147060, 44012100),
      Static("KC0RCH", 146850, 44012100)>>

amateur_125m_data ==
    <<Static("N0ONT", 224380, 44977800),
      Static("KC0125", 224460, 44953700),
      Static("W0RPT", 224540, 46786700)>>

amateur_70cm_data ==
    <<Static("W0UJ", 443925, 46520800),
      Static("W0UJ", 444925, 46356000),
      Static("W0AIH", 444025, 46358300),
      Static("KC0YHM", 442750, 46481600),
      Static("N0FMN", 442200, 46358300),
      Static("KC0CVZ", 443800, 46358300),
      Static("KC0TZF", 442525, 45976300),
      Static("W0RTN", 444550, 45537200),
      Static("KC0SCL", 442975, 45557900),
      Static("N0GWS", 443650, 47239900),
      Static("N0BVE", 442950, 47473700),
      Static("KC0BSU", 444300, 47473700),
      Static("WB0CMZ", 442600, 44953700),
      Static("K0UHF", 443200, 44977800),
      Static("W0UJ", 443925, 44953700),
      Static("KC0ART", 442325, 44731700),
      Static("W0MSP", 444875, 44977800),
      Static("KC0TCM", 442125, 45010500),
      Static("WD0EKR", 444450, 46786700),
      Static("K0DLH", 442375, 46786700),
      Static("WA0UHF", 442775, 44012100),
      Static("KC0RCH", 444700, 44012100),
      Static("W0MN", 443775, 45786900),
      Static("KC0NET", 442850, 46729600)>>

\* The names populate_all_amateur_data calls populate_band_data with, and
\* the list it passes with each.
BandNames == {"10m", "6m", "2m", "1.25m", "70cm"}

StaticBandData(band_name) ==
    CASE band_name = "10m" -> amateur_10m_data
      [] band_name = "6m" -> amateur_6m_data
      [] band_name = "2m" -> amateur_2m_data
      [] band_name = "1.25m" -> amateur_125m_data
      [] band_name = "70cm" -> amateur_70cm_data

\* band_ranges of filter_repeaters_by_band
band_ranges ==
    [b \in {"10", "6", "2", "125", "70cm"} |->
        CASE b = "10" -> <<28000, 29700>>
          [] b = "6" -> <<50000, 54000>>
          [] b = "2" -> <<144000, 148000>>
          [] b = "125" -> <<220000, 225000>>
          [] b = "70cm" -> <<420000, 450000>>]

\* The loop of filter_repeaters_by_band: an entry whose frequency float()
\* refuses is passed over.
InRange(repeaters, range) ==
    SelectSeq(repeaters,
              LAMBDA e : /\ FrequencyIsNumber(e)
                         /\ range[1] <= EntryFrequency(e) /\ EntryFrequency(e) <= range[2])

filter_repeaters_by_band(repeaters, band_name) ==
    IF band_name \notin DOMAIN band_ranges THEN <<>>
    ELSE InRange(repeaters, band_ranges[band_name])

\* determine_band
determine_band(frequency) ==
    IF 28000 <= frequency /\ frequency <= 29700 THEN "10m"
    ELSE IF 50000 <= frequency /\ frequency <= 54000 THEN "6m"
    ELSE IF 144000 <= frequency /\ frequency <= 148000 THEN "2m"
    ELSE IF 220000 <= frequency /\ frequency <= 225000 THEN "1.25m"
    ELSE IF 420000 <= frequency /\ frequency <= 450000 THEN "70cm"
    ELSE IF 902000 <= frequency /\ frequency <= 928000 THEN "33cm"
    ELSE IF 1240000 <= frequency /\ frequency <= 1300000 THEN "23cm"
    ELSE IF 2300000 <= frequency /\ frequency <= 2450000 THEN "13cm"
    ELSE "Other"

\* list.sort(key=lambda x: x[1]) on the rows with their distances from
\* user_lat: ascending, rows at the same distance in the order they had.
RowDistance(row, user_lat) == haversine(user_lat, LonFixed, row.lat, LonFixed)

\* The number of rows that come before row i, distance being the distances
\* of the rows.
RowsBefore(distance, i) ==
    Cardinality({j \in DOMAIN distance :
                    distance[j] < distance[i] \/ (distance[j] = distance[i] /\ j < i)})

Ranked(rows, rank) ==
    [k \in 1..Len(rows) |-> rows[CHOOSE i \in 1..Len(rows) : rank[i] = k - 1]]

SortedWith(rows, distance) ==
    Ranked(rows, [i \in 1..Len(rows) |-> RowsBefore(distance, i)])

SortedByDistance(rows, user_lat) ==
    SortedWith(rows, [i \in 1..Len(rows) |-> RowDistance(rows[i], user_lat)])

ApiRows(entries) == [i \in 1..Len(entries) |-> ApiRow(entries[i])]

\* populate_band_data from line 4461 on, api_repeaters being what the
\* filter gave: the rows of the table and the 'amateur' tag.
BandTable(W, repeaters, api_repeaters) ==
    IF api_repeaters # <<>> /\ 2 * Len(api_repeaters) > Len(repeaters)
    THEN [table |-> SortedByDistance(ApiRows(api_repeaters), W.last_lat),
          status |-> IF Len(api_repeaters) > 2 THEN "live" ELSE W.amateur_status,
          api_repeaters |-> api_repeaters]
    ELSE [table |-> SortedByDistance(repeaters, W.last_lat),
          status |-> "static",
          api_repeaters |-> api_repeaters]

\* populate_band_data(band_name, repeaters) on the window W.
populate_band_data(W, band_name, repeaters) ==
    BandTable(W, repeaters,
              IF ~W.cached_api_data.isNone /\ Len(W.cached_api_data.data) > 5
              THEN filter_repeaters_by_band(W.cached_api_data.data, band_name)
              ELSE <<>>)


(* SKYWARN data as populate_skywarn_data uses them.  Besides the entries    *)
(* above: 31 to 49 are the nineteen stations of static_skywarn_repeaters as *)
(* a regional record lists them, each under its 'call_sign' and with its    *)
(* coordinates; 50 is the first of them without coordinates; 51 is an       *)
(* entry whose 'lat' is a text float() refuses.                             *)

static_skywarn_repeaters ==
    <<Static("W0EAR", 146940, 44977800),
      Static("WB0CMZ", 145430, 44953700),
      Static("KC0YHH", 145450, 45197500),
      Static("W0MSP", 147420, 44884800),
      Static("K0USC", 146760, 46786700),
      Static("W0HSC", 147060, 44012100),
      Static("KC0OOO", 145470, 45557900),
      Static("W0RAN", 146850, 46358000),
      Static("N0BVE", 146670, 47473700),
      Static("WA0TDA", 147330, 47237800),
      Static("W0TCX", 146730, 44163600),
      Static("KC0BSC", 145170, 44049800),
      Static("W0ZPL", 146680, 43648100),
      Static("KC0JHF", 147240, 44446900),
      Static("W0MWX", 145230, 46873800),
      Static("KC0AHX", 146910, 45885500),
      Static("W0IAC", 147390, 48601900),
      Static("KC0EMG", 146550, 47750300),
      Static("N0QVC", 145350, 47903200)>>

SkywarnRecord == [i \in 1..Len(static_skywarn_repeaters) |-> 30 + i]

\* repeater.get('call_sign', repeater.get('callsign', 'N/A'))
CallSign(e) ==
    IF e \in 31..49 THEN static_skywarn_repeaters[e - 30].call
    ELSE IF e = 50 THEN static_skywarn_repeaters[1].call
    ELSE IF e = 8 THEN "WXK41"
    ELSE "N/A"

\* float(repeater.get('latitude', repeater.get('lat', 0.0))) raises
LatRaises(e) == e = 51

\* 43.0 <= lat <= 49.5 and -97.5 <= lon <= -89.0
InMinnesota(e) == e # 50

ConvertedLat(e) == IF e \in 31..49 THEN static_skywarn_repeaters[e - 30].lat ELSE EntryLat(e)

\* str(repeater.get('frequency', ...))
ConvertedFrequency(e) ==
    IF e \in 31..49 THEN static_skywarn_repeaters[e - 30].output
    ELSE IF e \in 50..51 THEN static_skywarn_repeaters[1].output
    ELSE EntryFrequency(e)

ConvertedRow(e) ==
    [origin |-> "api", call |-> CallSign(e), output |-> ConvertedFrequency(e),
     lat |-> ConvertedLat(e)]

\* The entries before the first one whose conversion raises: the loop of
\* convert_api_data_to_repeater_format stops there.
UpToException(api_data) ==
    SubSeq(api_data, 1,
           Cardinality({i \in 1..Len(api_data) : \A j \in 1..i : ~LatRaises(api_data[j])}))

ConvertAll(entries) == [i \in 1..Len(entries) |-> ConvertedRow(entries[i])]

\* convert_api_data_to_repeater_format
convert_api_data_to_repeater_format(api_data) ==
    ConvertAll(SelectSeq(UpToException(api_data), InMinnesota))

RowCalls(rows) == {rows[i].call : i \in 1..Len(rows)}

\* "Merge static data, avoiding duplicates by call sign"
MergeStatic(api_repeaters) ==
    api_repeaters \o SelectSeq(static_skywarn_repeaters,
                               LAMBDA s : s.call \notin RowCalls(api_repeaters))

\* Lines 3940-3944: tag is the tag the lines before left.
FinalTag(tag, api_data, combined_repeaters) ==
    IF api_data = <<>> THEN "static"
    ELSE IF Len(combined_repeaters) > Len(api_data) THEN "hybrid"
    ELSE tag

SkywarnMerged(W, tag, api_data, combined_repeaters) ==
    [table |-> SortedByDistance(combined_repeaters, W.last_lat),
     status |-> FinalTag(tag, api_data, combined_repeaters)]

\* populate_skywarn_data from line 3892 on: api_data is the data the lines
\* before chose, tag the tag they left.  Line 3899 sets the tag to 'live'
\* whenever there are data.
skywarn_display(W, tag, api_data) ==
    SkywarnMerged(W, IF api_data # <<>> THEN "live" ELSE tag, api_data,
                  MergeStatic(IF api_data # <<>>
                              THEN convert_api_data_to_repeater_format(api_data)
                              ELSE <<>>))

\* The tag lines 3866-3890 leave, by where api_data came from: "live" when
\* get_skywarn_repeaters made them from data it had just fetched,
\* "fetch_cached" when it returned what a cache file held, "disk" when
\* load_from_cache gave them to populate_skywarn_data, "memory" when they
\* are cached_skywarn_data, "none" when there are none.
TagOfSource(W, source) ==
    CASE source = "live" -> "live"
      [] source = "fetch_cached" -> "live"
      [] source = "disk" -> "cached"
      [] source = "memory" -> "cached"
      [] source = "none" -> W.skywarn_status

-----------------------------------------------------------------------------
(* SpecDisplay: the tables of a window that holds fetched data.  Init draws *)
(* the position and the regional data; the actions fill a band table and    *)
(* the SKYWARN table.                                                       *)

\* Home and Brainerd.
DisplayLats == {Home, 46358300}

\* cached_api_data: none, the empty list a failed fetch leaves, the seed
\* data, the seed data with a 6 m repeater and an entry without a numeric
\* frequency, the regional record of 70 cm repeaters without and with the
\* seed data.
CachedApiInputs ==
    {NoneVal, ListVal(<<>>), ListVal(fallback_repeaters),
     ListVal(fallback_repeaters \o <<9, 10>>),
     ListVal(RegionalRecord), ListVal(fallback_repeaters \o RegionalRecord)}

\* The SKYWARN data: the seed data, the regional SKYWARN record (one of its
\* stations, all but the last, all), its first station lacking coordinates
\* (alone, and with the others), and the record with an entry in front
\* whose latitude is no number.
SkywarnInputs ==
    {fallback_repeaters}
    \cup {SubSeq(SkywarnRecord, 1, k) : k \in {1, Len(SkywarnRecord) - 1, Len(SkywarnRecord)}}
    \cup {<<50>>, <<50>> \o SubSeq(SkywarnRecord, 2, Len(SkywarnRecord))}
    \cup {<<51>> \o SkywarnRecord, <<31, 51, 32>>}

SkywarnSources == {"live", "fetch_cached", "disk", "memory", "none"}

MaxDisplays == 1

InitDisplay ==
    /\ now = 0
    /\ cache_dir = {}
    /\ radio_api = InitRadioApi(TRUE)
    /\ \E lat \in DisplayLats, data \in CachedApiInputs :
           win = [started |-> TRUE, last_lat |-> lat, cached_api_data |-> data,
                  amateur_status |-> "static", skywarn_status |-> "static"]
    /\ obs = [op |-> "none", n |-> 0]

\* populate_band_data for one band, with the list populate_all_amateur_data
\* passes for it.
PopulateBandData(band_name) ==
    /\ obs.n < MaxDisplays
    /\ obs' = [op |-> "populate_band_data", n |-> obs.n + 1, band |-> band_name,
               show |-> populate_band_data(win, band_name, StaticBandData(band_name))]
    /\ win' = [win EXCEPT !.amateur_status = obs'.show.status]
    /\ UNCHANGED <<now, cache_dir, radio_api>>

\* populate_skywarn_data from the point where api_data is chosen: live data
\* are the seed data, no source means no data, every source gives data.
PopulateSkywarnData(source, api_data) ==
    /\ obs.n < MaxDisplays
    /\ source = "live" => api_data = fallback_repeaters
    /\ source = "none" <=> api_data = <<>>
    /\ obs' = [op |-> "populate_skywarn_data", n |-> obs.n + 1, source |-> source,
               api_data |-> api_data,
               converted |-> convert_api_data_to_repeater_format(api_data),
               show |-> skywarn_display(win, TagOfSource(win, source), api_data)]
    /\ win' = [win EXCEPT !.skywarn_status = obs'.show.status]
    /\ UNCHANGED <<now, cache_dir, radio_api>>

NextDisplay ==
    \/ \E band_name \in BandNames : PopulateBandData(band_name)
    \/ \E source \in SkywarnSources, api_data \in SkywarnInputs \cup {<<>>} :
           PopulateSkywarnData(source, api_data)

SpecDisplay == InitDisplay /\ [][NextDisplay]_vars

-----------------------------------------------------------------------------
(* Claims about the tables, checked under SpecDisplay *)

\* The rows of a table that carry the call sign c.
RowsFor(table, c) == {i \in 1..Len(table) : table[i].call = c}

OneFetchedRow(table, c) ==
    /\ Cardinality(RowsFor(table, c)) = 1
    /\ \A i \in RowsFor(table, c) : table[i].origin = "api"

\* The fetched entries of the band shown: those of cached_api_data whose
\* frequency determine_band puts in it.
FetchedOfBand ==
    {e \in {win.cached_api_data.data[i] : i \in 1..Len(win.cached_api_data.data)} :
        FrequencyIsNumber(e) /\ determine_band(EntryFrequency(e)) = obs.band}

FetchedSkywarn == {obs.api_data[i] : i \in 1..Len(obs.api_data)}

\* C13: when the fetched set of a category (a band, SKYWARN) and its static
\* list both hold an entry for a call sign, the table of the category shows
\* exactly one row for that call sign, and it is the fetched entry.
C13_OneFetchedRowPerCallSign ==
    /\ obs.op = "populate_band_data" =>
         \A c \in {EntryCall(e) : e \in FetchedOfBand}
                     \cap RowCalls(StaticBandData(obs.band)) :
             OneFetchedRow(obs.show.table, c)
    /\ obs.op = "populate_skywarn_data" =>
         \A c \in {CallSign(e) : e \in FetchedSkywarn} \cap RowCalls(static_skywarn_repeaters) :
             OneFetchedRow(obs.show.table, c)


\* The rows of a table, as a set.
Rows(table) == {table[i] : i \in 1..Len(table)}

\* The entries of a static list whose call sign no entry of fetched has,
\* call(e) being the call sign of the fetched entry e.
NotCovered(static, fetched, call(_)) ==
    {static[i] : i \in {j \in 1..Len(static) : \A e \in fetched : call(e) # static[j].call}}

\* C14: the table of every category holds every entry of the category's
\* static list whose call sign is not in the fetched set, also when fetched
\* entries are shown.
C14_StaticEntriesAlwaysShown ==
    /\ obs.op = "populate_band_data" =>
         NotCovered(StaticBandData(obs.band), FetchedOfBand, EntryCall)
             \subseteq Rows(obs.show.table)
    /\ obs.op = "populate_skywarn_data" =>
         NotCovered(static_skywarn_repeaters, FetchedSkywarn, CallSign)
             \subseteq Rows(obs.show.table)


\* Where SKYWARN data that were not fetched in the call come from.
CacheTiers == {"fetch_cached", "disk", "memory"}

\* C15: when populate_skywarn_data used data of a cache tier (a cache file
\* or its own cached_skywarn_data), the tag it leaves is 'cached', or
\* 'hybrid' when static entries were added; it is never 'live'.
C15_CachedDataNeverTaggedLive ==
    (obs.op = "populate_skywarn_data" /\ obs.source \in CacheTiers /\ obs.api_data # <<>>)
        => /\ win.skywarn_status \in {"cached", "hybrid"}
           /\ win.skywarn_status = "hybrid" =>
                  \E row \in Rows(obs.show.table) : row.origin = "static"


FetchedRowShown == \E row \in Rows(obs.show.table) : row.origin = "api"
StaticRowShown == \E row \in Rows(obs.show.table) : row.origin = "static"

\* C16: the tag populate_skywarn_data leaves is 'static' exactly when the
\* table holds no fetched entry, and 'hybrid' exactly when it holds at
\* least one fetched and at least one static entry.
C16_TagTellsWhatIsShown ==
    obs.op = "populate_skywarn_data" =>
        /\ win.skywarn_status = "static" <=> ~FetchedRowShown
        /\ win.skywarn_status = "hybrid" <=> (FetchedRowShown /\ StaticRowShown)


\* populate_band_data applies the band filter: cached_api_data holds more
\* than five entries.
FilterApplied ==
    /\ obs.op = "populate_band_data"
    /\ ~win.cached_api_data.isNone /\ Len(win.cached_api_data.data) > 5

CachedEntries == {win.cached_api_data.data[i] : i \in 1..Len(win.cached_api_data.data)}

\* C17: for each of the five bands shown, the filter populate_band_data
\* applies keeps an entry with a numeric frequency exactly when the
\* frequency is in the band's range (the range determine_band gives the
\* band), and drops an entry whose frequency is no number.
C17_BandFilterByRange ==
    FilterApplied =>
        \A e \in CachedEntries :
            (e \in {obs.show.api_repeaters[i] : i \in 1..Len(obs.show.api_repeaters)})
                <=> (FrequencyIsNumber(e) /\ determine_band(EntryFrequency(e)) = obs.band)

-----------------------------------------------------------------------------
(* The NOAA Weather Radio frequency reference *)

\* The seven standard frequencies, in kHz, in the order of the list.
noaa_frequencies == <<162400, 162425, 162450, 162475, 162500, 162525, 162550>>

Station(call, location, freq, lat, lon) ==
    [call |-> call, location |-> location, freq |-> freq, lat |-> lat, lon |-> lon]

\* The station table of populate_noaa_frequency_data.
static_noaa_stations == <<
    Station("KEC65", "Minneapolis/St. Paul", 162550, 44858800, 0 - 93208700),
    Station("KIG64", "Duluth", 162550, 46786700, 0 - 92100500),
    Station("KIF73", "St. Cloud", 162525, 45560800, 0 - 94204100),
    Station("WXM63", "Grand Rapids", 162525, 47237800, 0 - 93530800),
    Station("KJY63", "Aitkin", 162525, 46533000, 0 - 93710800),
    Station("WXM51", "Little Falls", 162475, 45976300, 0 - 94362500),
    Station("WXJ64", "Leader (Omen Lake)", 162550, 46650000, 0 - 94100000),
    Station("KXI44", "Wadena", 162450, 46438800, 0 - 95136400),
    Station("KJY80", "Red Wing", 162450, 44563300, 0 - 92534000),
    Station("KXI31", "Jeffers", 162450, 44073300, 0 - 95195300),
    Station("KXI32", "Sleepy Eye", 162475, 44300800, 0 - 94721900),
    Station("KIH60", "Alexandria", 162400, 45885500, 0 - 95377200),
    Station("KXI48", "Morris", 162475, 45586900, 0 - 95914200),
    Station("KXI51", "Marshall", 162425, 44446900, 0 - 95788100),
    Station("KXI61", "Montevideo", 162400, 44938800, 0 - 95714200),
    Station("KZZ34", "Rochester", 162525, 44012100, 0 - 92480200),
    Station("KZZ56", "Worthington", 162400, 43619100, 0 - 95595600),
    Station("WXK40", "La Crescent", 162475, 43824100, 0 - 91309600),
    Station("WXK95", "Hinckley", 162550, 46004700, 0 - 92940500),
    Station("WXM65", "Mankato", 162425, 44163600, 0 - 94071900),
    Station("WXM86", "International Falls", 162475, 48601900, 0 - 93401600),
    Station("WWG55", "Albert Lea", 162475, 43648100, 0 - 93368700),
    Station("WWG56", "Virginia", 162475, 47523500, 0 - 92536800),
    Station("KEC44", "Thief River Falls", 162400, 48117300, 0 - 96177900),
    Station("KIF68", "Willmar", 162500, 45121900, 0 - 95043300),
    Station("KIH41", "Redwood Falls", 162400, 44540800, 0 - 95116700),
    Station("KIH53", "New Ulm", 162550, 44312800, 0 - 94460800),
    Station("KEC85", "Grand Forks, ND", 162525, 47925300, 0 - 97032900),
    Station("KZZ93", "Aberdeen, SD", 162475, 45464700, 0 - 98486500),
    Station("WXK73", "Eau Claire, WI", 162550, 44811300, 0 - 91498500),
    Station("WXL40", "La Crosse, WI", 162475, 43801400, 0 - 91239600),
    Station("KWO39", "Park Rapids", 162525, 46923300, 0 - 95058700),
    Station("KXI86", "Fergus Falls", 162400, 46283000, 0 - 96077900),
    Station("WXL35", "Bemidji", 162450, 47473700, 0 - 94878900),
    Station("WXM32", "Walker", 162475, 47094200, 0 - 94584400),
    Station("KIG47", "Two Harbors", 162400, 47006600, 0 - 91696800),
    Station("WXK73", "Winona", 162550, 44049800, 0 - 91640700),
    Station("KZZ81", "Austin", 162475, 43667500, 0 - 92974100)
>>

\* The position the distances are taken from: last_lat unless it is falsy,
\* else the default of Minneapolis.
NoaaUserLat(W) == IF W.last_lat # 0 THEN W.last_lat ELSE 44977800

stations_on_freq(stations, frequency) ==
    SelectSeq(stations, LAMBDA s : s.freq = frequency)

\* The inner for loop: the distance of every station on the frequency.
StationDistances(on_freq, user_lat) ==
    [i \in 1..Len(on_freq) |->
        calculate_distance_miles(user_lat, LonFixed, on_freq[i].lat, on_freq[i].lon)]

\* A selection that takes the first station on the frequency.
FirstOnFrequency(distance) ==
    CHOOSE i \in DOMAIN distance : \A j \in DOMAIN distance : i <= j

\* "if distance < closest_distance" from float('inf'): the first station
\* that no other station on the frequency is strictly closer than.
ClosestIndex(distance) ==
    CHOOSE i \in DOMAIN distance :
        /\ \A j \in DOMAIN distance : distance[i] <= distance[j]
        /\ \A j \in DOMAIN distance : j < i => distance[j] > distance[i]

ClosestOf(frequency, on_freq, distance) ==
    IF on_freq = <<>>
    THEN [frequency |-> frequency, station |-> NoneVal, distance |-> Infinity]
    ELSE [frequency |-> frequency,
          station |-> ListVal(on_freq[ClosestIndex(distance)]),
          distance |-> distance[ClosestIndex(distance)]]

ClosestOn(frequency, on_freq, user_lat) ==
    ClosestOf(frequency, on_freq, StationDistances(on_freq, user_lat))

\* frequency_data before the sort: one entry per frequency of the list.
FrequencyData(stations, user_lat) ==
    [k \in 1..Len(noaa_frequencies) |->
        ClosestOn(noaa_frequencies[k], stations_on_freq(stations, noaa_frequencies[k]),
                  user_lat)]

\* frequency_data left in the order of the list of frequencies.
UnsortedFrequencyData(frequency_data) == frequency_data

\* frequency_data.sort(key=lambda x: x['distance']): a stable sort.
SortedFrequencyData(frequency_data) ==
    SortedWith(frequency_data,
               [i \in 1..Len(frequency_data) |-> frequency_data[i].distance])

\* f"{closest_distance:.1f}": micromiles rounded to tenths of a mile.
OneDecimal(distance) == (distance + 50000) \div 100000

ReceptionStatus(closest_distance) ==
    IF closest_distance < 30000000 THEN "Excellent"
    ELSE IF closest_distance < 60000000 THEN "Good"
    ELSE IF closest_distance < 100000000 THEN "Fair"
    ELSE "Poor"

\* The five items of one row of noaa_table.
NoaaRow(freq_info) ==
    IF ~freq_info.station.isNone /\ freq_info.distance # Infinity
    THEN [frequency |-> freq_info.frequency,
          station |-> freq_info.station.data.call,
          location |-> freq_info.station.data.location,
          distance |-> OneDecimal(freq_info.distance),
          status |-> ReceptionStatus(freq_info.distance)]
    ELSE [frequency |-> freq_info.frequency, station |-> "N/A",
          location |-> "No stations", distance |-> 0 - 1,
          status |-> "Not available"]

NoaaRows(sorted) == [row \in 1..Len(sorted) |-> NoaaRow(sorted[row])]

NoaaShown(sorted) == [frequency_data |-> sorted, table |-> NoaaRows(sorted)]

\* What populate_noaa_frequency_data computes over a station table: the
\* sorted frequency_data and the rows set in noaa_table.
noaa_table(W, stations) ==
    NoaaShown(SortedFrequencyData(FrequencyData(stations, NoaaUserLat(W))))

\* Positions every quarter of a degree from 43.5 to 48.5 degrees north.
NoaaLats == {43500000 + 250000 * k : k \in 0..20}

\* Station tables: the table of the source; the same without KIF68, the
\* only station on 162.500; its first two stations, both on 162.550; and
\* no station at all.  The reduced tables reach the branches of lines
\* 4147-4160 and 4210-4219, which the table of the source does not.
NoaaTables ==
    { static_noaa_stations,
      SelectSeq(static_noaa_stations, LAMBDA s : s.call # "KIF68"),
      SubSeq(static_noaa_stations, 1, 2),
      <<>> }

InitNoaa ==
    /\ now = 0
    /\ cache_dir = {}
    /\ radio_api = InitRadioApi(TRUE)
    /\ \E lat \in NoaaLats : win = [started |-> TRUE, last_lat |-> lat]
    /\ obs = [op |-> "none"]

PopulateNoaaFrequencyData(stations) ==
    /\ obs' = [op |-> "populate_noaa_frequency_data", stations |-> stations,
               show |-> noaa_table(win, stations)]
    /\ UNCHANGED <<now, cache_dir, radio_api, win>>

NextNoaa == \E stations \in NoaaTables : PopulateNoaaFrequencyData(stations)

SpecNoaa == InitNoaa /\ [][NextNoaa]_vars

-----------------------------------------------------------------------------
(* Claims about the NOAA frequency reference, checked under SpecNoaa *)

NoaaPopulated == obs.op = "populate_noaa_frequency_data"

\* The stations of the table in use that transmit on frequency f.
OnFrequency(f) ==
    {obs.stations[i] : i \in {j \in 1..Len(obs.stations) : obs.stations[j].freq = f}}

FromHere(s) == calculate_distance_miles(win.last_lat, LonFixed, s.lat, s.lon)

Nearest(s, f) == \A other \in OnFrequency(f) : FromHere(s) <= FromHere(other)

RowsOf(f) == {i \in 1..Len(obs.show.table) : obs.show.table[i].frequency = f}

NearestDistance(f) ==
    FromHere(CHOOSE s \in OnFrequency(f) : Nearest(s, f))

Available(i) == OnFrequency(obs.show.table[i].frequency) # {}

-----------------------------------------------------------------------------
(* The trunked-system site lookup *)

\* The text of a CSV cell as its characters.
Strip(value) ==
    LET first == {i \in 1..Len(value) : value[i] # " "} IN
    IF first = {} THEN <<>>
    ELSE SubSeq(value, CHOOSE i \in first : \A j \in first : i <= j,
                       CHOOSE i \in first : \A j \in first : i >= j)

\* freq.endswith("c")
EndsWithC(freq) == freq # <<>> /\ freq[Len(freq)] = "c"

\* freq.replace("c", "")
WithoutC(freq) == SelectSeq(freq, LAMBDA ch : ch # "c")

\* "Extract all frequencies from columns 9 onwards": the stripped values
\* that are not empty.
Frequencies(cells) ==
    SelectSeq([i \in 1..Len(cells) |-> Strip(cells[i])], LAMBDA value : value # <<>>)

\* The text of a coordinate column: a number, or text float() rejects
\* (the "" of a row with fewer columns among them).
Coordinate(v) == [numeric |-> TRUE, v |-> v]
NotANumber == [numeric |-> FALSE, v |-> 0]

\* One row of the file as the site dictionary made of it; cells are the
\* columns from the tenth on.
SiteRow(dec, nac, lat, cells) ==
    [Dec |-> dec, NAC |-> nac, Lat |-> lat, Lon |-> Coordinate(LonFixed),
     Frequencies |-> Frequencies(cells)]

\* calculate_bearing between two points of one meridian: atan2(0, y) is 0
\* for y >= 0 and 180 degrees for y < 0.
calculate_bearing(lat1, lon1, lat2, lon2) == IF lat2 >= lat1 THEN 0 ELSE 180

control_frequencies(site) ==
    [i \in 1..Len(SelectSeq(site.Frequencies, EndsWithC)) |->
        WithoutC(SelectSeq(site.Frequencies, EndsWithC)[i])]

\* The body of "for site in data": the tuple appended to distances, or
\* nothing when float() raises ValueError or there is no control channel.
SiteTuple(site, user_lat, user_lon) ==
    IF ~site.Lat.numeric \/ ~site.Lon.numeric THEN <<>>
    ELSE IF control_frequencies(site) = <<>> THEN <<>>
    ELSE << [site |-> site,
             distance |-> haversine(user_lat, user_lon, site.Lat.v, site.Lon.v),
             bearing |-> calculate_bearing(user_lat, user_lon, site.Lat.v, site.Lon.v),
             control_frequencies |-> control_frequencies(site),
             nac |-> site.NAC] >>

RECURSIVE SiteTuples(_, _, _)
SiteTuples(data, user_lat, user_lon) ==
    IF data = <<>> THEN <<>>
    ELSE SiteTuple(Head(data), user_lat, user_lon)
             \o SiteTuples(Tail(data), user_lat, user_lon)

\* The first num_sites entries in the order of the file.
FirstInFile(distances, num_sites) ==
    SubSeq(distances, 1, IF num_sites < Len(distances) THEN num_sites ELSE Len(distances))

\* distances.sort(key=lambda x: x[1]); return distances[:num_sites]
NearestFirst(distances, num_sites) ==
    SubSeq(SortedWith(distances, [i \in 1..Len(distances) |-> distances[i].distance]),
           1, IF num_sites < Len(distances) THEN num_sites ELSE Len(distances))

\* find_closest_sites: [] when the file is missing, StopIteration from
\* next(csv_reader) when it has no header line.
find_closest_sites(file, user_lat, user_lon, num_sites) ==
    IF ~file.exists THEN Returned(<<>>)
    ELSE IF ~file.header THEN Raised("StopIteration")
    ELSE Returned(NearestFirst(SiteTuples(file.rows, user_lat, user_lon), num_sites))

\* Sites around Home: 1 with a voice and a control channel 0.1 degree
\* north; 2 nearer, with "c" and "C" only where they mark nothing; 3 as far
\* south as 1 is north, its control channel after an empty and a blank
\* column and followed by a blank; 4 with a control channel and no
\* latitude; 5 the nearest, with two control channels; 6 a row of five
\* columns.
SitePool ==
    << SiteRow(1, "3A1", Coordinate(Home + 100000),
               << <<"8", "5", "1">>, <<"8", "5", "2", "c">> >>),
       SiteRow(2, "3A2", Coordinate(Home + 50000),
               << <<"8", "5", "1">>, <<"c", "8">>, <<"8", "C">> >>),
       SiteRow(3, "3A3", Coordinate(Home - 100000),
               << <<>>, <<" ">>, <<"8", "5", "3", "c", " ">> >>),
       SiteRow(4, "3A4", NotANumber, << <<"8", "5", "2", "c">> >>),
       SiteRow(5, "3A5", Coordinate(Home + 20000),
               << <<"8", "5", "2", "c">>, <<"8", "5", "4", "c">> >>),
       SiteRow(6, "", NotANumber, <<>>) >>

MaxSites == 3

\* The orders in which up to MaxSites different sites can stand in a file.
SiteOrders ==
    {order \in UNION {[1..n -> 1..Len(SitePool)] : n \in 0..MaxSites} :
        \A i, j \in DOMAIN order : i # j => order[i] # order[j]}

CsvFile(order) ==
    [exists |-> TRUE, header |-> TRUE, rows |-> [i \in DOMAIN order |-> SitePool[order[i]]]]

\* A file of sites, a file without a line, and no file.
CsvFiles ==
    {CsvFile(order) : order \in SiteOrders}
        \cup {[exists |-> TRUE, header |-> FALSE, rows |-> <<>>],
              [exists |-> FALSE, header |-> FALSE, rows |-> <<>>]}

SiteLats == {Home, Home + 60000}

\* num_sites: the defaults of the two programs, and counts that cut the
\* list.
SiteCounts == {1, 2, 5, 50}

InitSites ==
    /\ now = 0
    /\ cache_dir = {}
    /\ radio_api = InitRadioApi(TRUE)
    /\ \E file \in CsvFiles, lat \in SiteLats :
           win = [started |-> TRUE, last_lat |-> lat, csv_filepath |-> file]
    /\ obs = [op |-> "none"]

FindClosestSites(num_sites) ==
    /\ obs' = [op |-> "find_closest_sites", num_sites |-> num_sites,
               result |-> find_closest_sites(win.csv_filepath, win.last_lat, LonFixed,
                                             num_sites)]
    /\ UNCHANGED <<now, cache_dir, radio_api, win>>

NextSites == \E num_sites \in SiteCounts : FindClosestSites(num_sites)

SpecSites == InitSites /\ [][NextSites]_vars

-----------------------------------------------------------------------------
(* Claims about the site lookup, checked under SpecSites *)

SitesReturned == obs.op = "find_closest_sites" /\ obs.result.exc = "none"

HasControlChannel(site) ==
    \E i \in 1..Len(site.Frequencies) :
        site.Frequencies[i][Len(site.Frequencies[i])] = "c"

SitesOfFile == {win.csv_filepath.rows[i] : i \in 1..Len(win.csv_filepath.rows)}

ReturnedSites == {obs.result.val[i].site : i \in 1..Len(obs.result.val)}

FromUser(site) == haversine(win.last_lat, LonFixed, site.Lat.v, site.Lon.v)

\* C20: find_closest_sites returns only sites of the file that have a
\* frequency ending in "c", each once and with its distance from the user,
\* in non-decreasing order of that distance, at most num_sites of them; a
\* site with a control channel and a position is left out only when
\* num_sites sites were returned and none of them is farther than it.
C20_NearestSitesWithControlChannel ==
    SitesReturned =>
        /\ \A i \in 1..Len(obs.result.val) :
               /\ obs.result.val[i].site \in SitesOfFile
               /\ HasControlChannel(obs.result.val[i].site)
               /\ obs.result.val[i].distance = FromUser(obs.result.val[i].site)
        /\ \A i, j \in 1..Len(obs.result.val) :
               i < j =>
                   /\ obs.result.val[i].distance <= obs.result.val[j].distance
                   /\ obs.result.val[i].site # obs.result.val[j].site
        /\ Len(obs.result.val) <= obs.num_sites
        /\ \A site \in SitesOfFile \ ReturnedSites :
               HasControlChannel(site) /\ site.Lat.numeric =>
                   /\ Len(obs.result.val) = obs.num_sites
                   /\ \A i \in 1..Len(obs.result.val) :
                          obs.result.val[i].distance <= FromUser(site)

\* A file of site 1, the nearer site 2 without a control channel and the
\* nearest site 5, read from Home with num_sites = 1: site 5 is returned.
C20_Witness ==
    /\ SitesReturned
    /\ obs.num_sites = 1
    /\ win.last_lat = Home
    /\ [i \in 1..Len(win.csv_filepath.rows) |-> win.csv_filepath.rows[i].Dec] = <<1, 2, 5>>
    /\ Len(obs.result.val) = 1
    /\ obs.result.val[1].site.Dec = 5
    /\ obs.result.val[1].control_frequencies = << <<"8", "5", "2">>, <<"8", "5", "4">> >>

-----------------------------------------------------------------------------
(* SpecKey: the window's handlers and the three data functions called in    *)
(* any order, with and without an API key.                                  *)

\* What obs holds after a direct call of one of the three data functions.
DataObs(name, lat, r) ==
    [op |-> name, n |-> obs.n + 1, lat |-> lat, speed |-> 0, first_fix |-> FALSE,
     refreshed |-> {}, amateur |-> <<>>,
     failed_before |-> obs.failed_before, failed |-> obs.failed,
     refresh_pos_before |-> obs.refresh_pos_before, refresh_pos |-> obs.refresh_pos,
     fetched |-> r.fetched]

DataReturns(name, lat, r) ==
    /\ cache_dir' = r.dir
    /\ radio_api' = r.api
    /\ obs' = DataObs(name, lat, r)
    /\ UNCHANGED <<now, win>>

CallGetRepeatersByLocation(lat, online, rev) ==
    /\ obs.n < MaxEvents + 1 /\ online \in OnlineAnswers /\ rev \in ListingOrders
    /\ DataReturns("get_repeaters_by_location", lat,
                   get_repeaters_by_location([dir |-> cache_dir, api |-> radio_api], now,
                                             lat, LonFixed, cached_api_radius, online, rev))

CallGetSkywarnRepeaters(lat, online, rev) ==
    /\ obs.n < MaxEvents + 1 /\ online \in OnlineAnswers /\ rev \in ListingOrders
    /\ DataReturns("get_skywarn_repeaters", lat,
                   get_skywarn_repeaters([dir |-> cache_dir, api |-> radio_api], now,
                                         lat, LonFixed, SkywarnRadius, online, rev))

CallGetNoaaWeatherRadio(lat, online, rev) ==
    /\ obs.n < MaxEvents + 1 /\ online \in OnlineAnswers /\ rev \in ListingOrders
    /\ DataReturns("get_noaa_weather_radio", lat,
                   get_noaa_weather_radio([dir |-> cache_dir, api |-> radio_api], now,
                                          lat, LonFixed, 200, online, rev))

InitKey ==
    /\ now = 0
    /\ cache_dir \in WinInitialDirs
    /\ \E key \in BOOLEAN : radio_api = InitRadioApi(key)
    /\ win = IdleWin
    /\ obs = [op |-> "none", n |-> 0, lat |-> Home, speed |-> 0, first_fix |-> FALSE,
              refreshed |-> {}, amateur |-> <<>>,
              failed_before |-> FALSE, failed |-> FALSE,
              refresh_pos_before |-> NoLocation, refresh_pos |-> NoLocation,
              fetched |-> FALSE]

\* Home and a point 0.011 mi north of it; walking and vehicle speed.
KeyLats == {Home, Home + 160}
KeySpeeds == {1000, 1500}

NextKey ==
    \/ \E force_refresh \in {FALSE}, online \in BOOLEAN, rev \in BOOLEAN :
           CreateWindow(force_refresh, online, rev)
    \/ \E latitude \in KeyLats, speed \in KeySpeeds,
          online \in BOOLEAN, rev \in BOOLEAN :
           UpdateGpsData(latitude, speed, online, rev)
    \/ \E online \in BOOLEAN, rev \in BOOLEAN : RefreshTowers(online, rev)
    \/ \E seconds \in {30} : TimePasses(seconds)
    \/ \E lat \in KeyLats, online \in BOOLEAN, rev \in BOOLEAN :
           CallGetRepeatersByLocation(lat, online, rev)
    \/ \E lat \in KeyLats, online \in BOOLEAN, rev \in BOOLEAN :
           CallGetSkywarnRepeaters(lat, online, rev)
    \/ \E lat \in KeyLats, online \in BOOLEAN, rev \in BOOLEAN :
           CallGetNoaaWeatherRadio(lat, online, rev)

SpecKey == InitKey /\ [][NextKey]_vars

\* Claims about the API key, checked under SpecKey

DataFunctions ==
    {"get_repeaters_by_location", "get_skywarn_repeaters", "get_noaa_weather_radio"}

Handlers == {"create_window", "update_gps_data", "refresh_towers"}

\* C21: with no API key configured, no call of get_repeaters_by_location,
\* get_skywarn_repeaters, get_noaa_weather_radio or populate_all_amateur_data
\* makes a network request, over any sequence of GPS updates: is_online is
\* never called, nothing is fetched, and no cache file is written.
C21_NoRequestWithoutKey ==
    ~radio_api.api_key =>
        /\ ~radio_api.is_online_called
        /\ radio_api.last_api_location.isNone
        /\ cache_dir \in WinInitialDirs
        /\ obs.op \in DataFunctions => ~obs.fetched
        /\ obs.op \in Handlers =>
               \A i \in 1..Len(obs.amateur) : obs.amateur[i] = "noattempt"

\* Without a key: a data function was called, then a fix arrived that
\* refreshed the SKYWARN and the amateur data.
C21_Witness ==
    /\ ~radio_api.api_key
    /\ obs.op = "update_gps_data"
    /\ obs.n >= 3
    /\ {"skywarn", "amateur"} \subseteq obs.refreshed
    /\ obs.amateur # <<>>
    /\ ~radio_api.is_online_called

-----------------------------------------------------------------------------
(* UDP broadcasting of the closest towers *)

udp_send_interval == 25
UdpErrorLimit == 50

\* setup_udp: enabled is the configuration's [UDP] enabled, raises whether
\* reading the configuration or creating the socket raises.
setup_udp(enabled, raises) ==
    IF raises THEN [udp_enabled |-> FALSE, udp_socket |-> FALSE, last_udp_send |-> 0,
                    udp_startup_logged |-> FALSE, udp_error_count |-> 0]
    ELSE [udp_enabled |-> enabled, udp_socket |-> enabled, last_udp_send |-> 0,
          udp_startup_logged |-> FALSE, udp_error_count |-> 0]

\* The try block when the send succeeds, and the same without the reset of
\* the error count.
UdpSentKeepsCount(W, t) ==
    [W EXCEPT !.last_udp_send = t, !.udp_startup_logged = TRUE]

UdpSent(W, t) ==
    [W EXCEPT !.last_udp_send = t, !.udp_startup_logged = TRUE, !.udp_error_count = 0]

\* "if self.udp_error_count >= 50": disable and close the socket.
UdpDisabledIfTooMany(W) ==
    IF W.udp_error_count >= UdpErrorLimit
    THEN [W EXCEPT !.udp_enabled = FALSE, !.udp_socket = FALSE]
    ELSE W

\* The except branch.
UdpFailed(W) == UdpDisabledIfTooMany([W EXCEPT !.udp_error_count = @ + 1])

\* send_udp_armer_data: the object after the call and what the call did;
\* raises is whether building or sending the datagram raises.
send_udp_armer_data(W, t, raises) ==
    IF ~W.udp_enabled \/ ~W.udp_socket THEN [win |-> W, did |-> "off"]
    ELSE IF t - W.last_udp_send < udp_send_interval THEN [win |-> W, did |-> "wait"]
    ELSE IF raises THEN [win |-> UdpFailed(W), did |-> "failed"]
    ELSE [win |-> UdpSent(W, t), did |-> "sent"]

\* time.time() when the program starts, far from last_udp_send = 0.
UdpEpoch == 1000

MaxSendCalls == 52
MaxTicks == 2

InitUdp ==
    /\ now = UdpEpoch
    /\ cache_dir = {}
    /\ radio_api = InitRadioApi(FALSE)
    /\ \E enabled \in BOOLEAN, raises \in BOOLEAN : win = setup_udp(enabled, raises)
    /\ obs = [op |-> "setup_udp", n |-> 0, ticks |-> 0, did |-> "none", run |-> 0]

\* obs.run counts the failed sends since the last datagram that went out.
SendUdpArmerData(raises) ==
    /\ obs.n < MaxSendCalls
    /\ win' = send_udp_armer_data(win, now, raises).win
    /\ obs' = [obs EXCEPT !.op = "send_udp_armer_data", !.n = @ + 1,
                          !.did = send_udp_armer_data(win, now, raises).did,
                          !.run = IF send_udp_armer_data(win, now, raises).did = "failed"
                                  THEN @ + 1
                                  ELSE IF send_udp_armer_data(win, now, raises).did = "sent"
                                       THEN 0 ELSE @]
    /\ UNCHANGED <<now, cache_dir, radio_api>>

UdpTimePasses(seconds) ==
    /\ obs.ticks < MaxTicks
    /\ now' = now + seconds
    /\ obs' = [obs EXCEPT !.op = "time", !.ticks = @ + 1]
    /\ UNCHANGED <<cache_dir, radio_api, win>>

NextUdp ==
    \/ \E raises \in BOOLEAN : SendUdpArmerData(raises)
    \/ \E seconds \in {10, 25} : UdpTimePasses(seconds)

SpecUdp == InitUdp /\ [][NextUdp]_vars

\* Claims about UDP broadcasting, checked under SpecUdp

\* C22: broadcasting that was set up enabled is disabled exactly when 50
\* sends in a row have failed with no datagram sent in between; a datagram
\* sent sets the error count to zero; and once broadcasting is disabled no
\* datagram is sent any more.
C22_DisabledAfterFiftyFailures ==
    [][/\ win.udp_enabled => (win'.udp_enabled <=> obs'.run < 50)
       /\ obs'.did = "sent" => win'.udp_error_count = 0
       /\ ~win.udp_enabled => obs'.did # "sent" /\ ~win'.udp_enabled]_vars

\* A datagram went out, then fifty sends failed and broadcasting is off.
C22_Witness ==
    /\ ~win.udp_enabled
    /\ win.udp_startup_logged
    /\ obs.run = 50
    /\ obs.n > 50
    /\ obs.did = "failed"

-----------------------------------------------------------------------------
(* Startup and the force-refresh flag *)

\* towerwitch_config.ini as far as startup reads it: whether the file
\* exists, whether a key is set, and the text of force_refresh_cache in
\* [API] ("absent" when the option is not there).
ConfigFile(exists, key, flag) ==
    [exists |-> exists, radio_reference_key |-> key, force_refresh_cache |-> flag]

\* create_default_config: no key, no force_refresh_cache option.
default_config == ConfigFile(TRUE, FALSE, "absent")

\* load_configuration: the parser's contents, and the file after it.
load_configuration(file) == IF file.exists THEN file ELSE default_config

\* config.getboolean('API', 'force_refresh_cache', fallback=False)
getboolean(config) ==
    IF config.force_refresh_cache = "absent" THEN Returned(FALSE)
    ELSE IF config.force_refresh_cache \in {"1", "yes", "true", "on"} THEN Returned(TRUE)
    ELSE IF config.force_refresh_cache \in {"0", "no", "false", "off"} THEN Returned(FALSE)
    ELSE Raised("ValueError")

\* The configuration left as it was read.
ConfigKept(config) == config

\* config.set('API', 'force_refresh_cache', 'false') and config.write(f)
ConfigReset(config) == [config EXCEPT !.force_refresh_cache = "false"]

\* __init__ from load_configuration on, when getboolean returns: the file
\* written, and the window, directory and API object create_window leaves.
StartedWith(dir, t, config, force_refresh, online, rev) ==
    [config_file |-> IF force_refresh THEN ConfigReset(config) ELSE config,
     found |-> force_refresh,
     X |-> create_window([win |-> IdleWin, dir |-> dir,
                          api |-> InitRadioApi(config.radio_reference_key),
                          log |-> EmptyLog],
                         t, force_refresh, online, rev)]

\* __init__: a ValueError of getboolean ends the initialization at line
\* 1104, before the tabs are created.
startup(dir, t, file, online, rev) ==
    IF getboolean(load_configuration(file)).exc # "none"
    THEN [config_file |-> load_configuration(file), found |-> FALSE,
          X |-> [win |-> IdleWin, dir |-> dir,
                 api |-> InitRadioApi(load_configuration(file).radio_reference_key),
                 log |-> EmptyLog]]
    ELSE StartedWith(dir, t, load_configuration(file),
                     getboolean(load_configuration(file)).val, online, rev)

\* The values of force_refresh_cache a user may write.
FlagTexts == {"absent", "true", "yes", "false", "maybe"}

MaxStartups == 3

InitStartup ==
    /\ now = 0
    /\ cache_dir \in WinInitialDirs
    /\ radio_api = InitRadioApi(FALSE)
    /\ \E exists \in BOOLEAN, key \in BOOLEAN, flag \in FlagTexts :
           /\ ~exists => ~key /\ flag = "absent"
           /\ win = [running |-> FALSE, config_file |-> ConfigFile(exists, key, flag)]
    /\ obs = [op |-> "none", n |-> 0, found |-> FALSE, found_before |-> FALSE,
              edited |-> FALSE]

\* The program is started: __init__ runs.
Startup(online, rev) ==
    /\ ~win.running /\ obs.n < MaxStartups
    /\ online \in (IF load_configuration(win.config_file).radio_reference_key
                   THEN BOOLEAN ELSE {FALSE})
    /\ rev \in ListingOrders
    /\ win' = [running |-> TRUE,
               config_file |-> startup(cache_dir, now, win.config_file, online, rev).config_file]
    /\ cache_dir' = startup(cache_dir, now, win.config_file, online, rev).X.dir
    /\ radio_api' = startup(cache_dir, now, win.config_file, online, rev).X.api
    /\ obs' = [op |-> "startup", n |-> obs.n + 1,
               found |-> startup(cache_dir, now, win.config_file, online, rev).found,
               found_before |-> obs.found /\ ~obs.edited,
               edited |-> FALSE]
    /\ UNCHANGED now

\* The program is closed a minute later.
Quit ==
    /\ win.running
    /\ win' = [win EXCEPT !.running = FALSE]
    /\ now' = now + 60
    /\ obs' = [obs EXCEPT !.op = "quit"]
    /\ UNCHANGED <<cache_dir, radio_api>>

\* The user edits force_refresh_cache in the file while the program is
\* not running.
EditConfiguration(flag) ==
    /\ ~win.running /\ win.config_file.exists /\ ~obs.edited
    /\ flag # win.config_file.force_refresh_cache
    /\ win' = [win EXCEPT !.config_file.force_refresh_cache = flag]
    /\ obs' = [obs EXCEPT !.op = "edit", !.edited = TRUE]
    /\ UNCHANGED <<now, cache_dir, radio_api>>

NextStartup ==
    \/ \E online \in BOOLEAN, rev \in BOOLEAN : Startup(online, rev)
    \/ Quit
    \/ \E flag \in FlagTexts : EditConfiguration(flag)

SpecStartup == InitStartup /\ [][NextStartup]_vars

\* Claims about startup, checked under SpecStartup

SaysYes(file) == file.exists /\ file.force_refresh_cache \in {"true", "yes"}

StartsUp == ~win.running /\ win'.running

\* C23: a startup that finds force_refresh_cache true removes every cache
\* file that was there and writes the flag back as false; the startup after
\* it, with no edit of the configuration in between, removes no cache file.
C23_ForceRefreshResetsItself ==
    [][/\ StartsUp /\ SaysYes(win.config_file) =>
              /\ cache_dir' \cap cache_dir = {}
              /\ win'.config_file.force_refresh_cache = "false"
       /\ StartsUp /\ obs.found /\ ~obs.edited =>
              /\ obs'.found = FALSE
              /\ \A f \in cache_dir : \E g \in cache_dir' : g.name = f.name]_vars

\* The second startup after one that found the flag true, with cache files
\* written by the first still there.
C23_Witness ==
    /\ obs.op = "startup"
    /\ obs.n = 2
    /\ obs.found_before
    /\ ~obs.found
    /\ win.config_file.force_refresh_cache = "false"
    /\ \E f \in cache_dir : f.timestamp = 0

-----------------------------------------------------------------------------
(* The GPS worker *)

\* A line of gpspipe output: text json.loads rejects, JSON that is not an
\* object, or an object with its class ("absent" when it has none), the
\* keys it carries and their values.
MalformedLine == [json |-> "malformed"]
ArrayLine == [json |-> "array"]
ObjectLine(class, keys, mode, lat, speed) ==
    [json |-> "object", class |-> class, keys |-> keys, mode |-> mode,
     lat |-> lat, lon |-> LonFixed, alt |-> 250, speed |-> speed, track |-> 90]

\* data.get(key, default)
LineGet(line, key, value, default) == IF key \in line.keys THEN value ELSE default

\* The fix emitted for a TPV object that carries lat, lon and mode.
Fix(line) ==
    [lat |-> line.lat, lon |-> line.lon,
     alt |-> LineGet(line, "alt", line.alt, 0),
     speed |-> LineGet(line, "speed", line.speed, 0),
     track |-> LineGet(line, "track", line.track, 0)]

\* "if mode >= 2" with a threshold one higher.
HasFix3D(mode) == mode >= 3

\* "if mode >= 2"
HasFix(mode) == mode >= 2

\* The body of the read loop for one line: the exception caught, if any,
\* and the fix emitted, if any.
ParseLine(line) ==
    IF line.json = "malformed" THEN [exc |-> "JSONDecodeError", emitted |-> NoneVal]
    ELSE IF line.json # "object" THEN [exc |-> "AttributeError", emitted |-> NoneVal]
    ELSE IF line.class # "TPV" THEN [exc |-> "none", emitted |-> NoneVal]
    ELSE IF ~({"lat", "lon", "mode"} \subseteq line.keys)
         THEN [exc |-> "none", emitted |-> NoneVal]
    ELSE IF HasFix(line.mode) THEN [exc |-> "none", emitted |-> ListVal(Fix(line))]
    ELSE [exc |-> "none", emitted |-> NoneVal]

\* GPSWorker.__init__
NewWorker == [running |-> TRUE, pc |-> "created", process |-> "none", stdout |-> <<>>]

GpsClasses == {"TPV", "SKY", "absent"}
GpsKeySets ==
    {required \cup optional :
        required \in SUBSET {"lat", "lon", "mode"}, optional \in {{}, {"alt", "speed", "track"}}}
GpsLines ==
    {MalformedLine, ArrayLine}
        \cup {ObjectLine(class, keys, mode, Home + 160, 1500) :
                 class \in GpsClasses, keys \in GpsKeySets, mode \in 1..3}

MaxLines == 2

InitGps ==
    /\ now = 0
    /\ cache_dir = {}
    /\ radio_api = InitRadioApi(FALSE)
    /\ win = NewWorker
    /\ obs = [op |-> "none", n |-> 0, stopped |-> FALSE]

\* run up to the read loop: gpspipe is started, or is not installed.
StartWorker(found) ==
    /\ win.pc = "created"
    /\ win' = IF found THEN [win EXCEPT !.pc = "reading", !.process = "running"]
              ELSE [win EXCEPT !.pc = "done"]
    /\ obs' = [obs EXCEPT !.op = "run"]
    /\ UNCHANGED <<now, cache_dir, radio_api>>

\* gpspipe writes a line to its standard output.
GpspipeWrites(line) ==
    /\ win.process = "running" /\ obs.n < MaxLines /\ win.stdout = <<>>
    /\ win' = [win EXCEPT !.stdout = <<line>>]
    /\ obs' = [obs EXCEPT !.op = "gpspipe", !.n = @ + 1]
    /\ UNCHANGED <<now, cache_dir, radio_api>>

\* gpspipe ends.
GpspipeExits ==
    /\ win.process = "running"
    /\ win' = [win EXCEPT !.process = "exited"]
    /\ obs' = [obs EXCEPT !.op = "gpspipe_exit"]
    /\ UNCHANGED <<now, cache_dir, radio_api>>

\* One pass of "for line in process.stdout": the worker takes the line that
\* is there; with running false it breaks and terminates gpspipe.
ReadLine ==
    /\ win.pc = "reading" /\ win.stdout # <<>>
    /\ win' = IF ~win.running
              THEN [win EXCEPT !.stdout = <<>>, !.pc = "done",
                               !.process = IF @ = "running" THEN "terminated" ELSE @]
              ELSE [win EXCEPT !.stdout = <<>>]
    /\ obs' = [op |-> "read", n |-> obs.n, stopped |-> obs.stopped,
               running |-> win.running, line |-> win.stdout[1],
               exc |-> IF win.running THEN ParseLine(win.stdout[1]).exc ELSE "none",
               emitted |-> IF win.running THEN ParseLine(win.stdout[1]).emitted
                           ELSE NoneVal]
    /\ UNCHANGED <<now, cache_dir, radio_api>>

\* The loop ends at the end of gpspipe's output; process.terminate().
EndOfOutput ==
    /\ win.pc = "reading" /\ win.stdout = <<>> /\ win.process = "exited"
    /\ win' = [win EXCEPT !.pc = "done"]
    /\ obs' = [obs EXCEPT !.op = "eof"]
    /\ UNCHANGED <<now, cache_dir, radio_api>>

\* closeEvent: GPSWorker.stop, called when the thread isRunning().
StopWorker ==
    /\ win.running /\ win.pc = "reading"
    /\ win' = [win EXCEPT !.running = FALSE]
    /\ obs' = [obs EXCEPT !.op = "stop", !.stopped = TRUE]
    /\ UNCHANGED <<now, cache_dir, radio_api>>

NextGps ==
    \/ \E found \in BOOLEAN : StartWorker(found)
    \/ \E line \in GpsLines : GpspipeWrites(line)
    \/ GpspipeExits
    \/ ReadLine
    \/ EndOfOutput
    \/ StopWorker

SpecGps == InitGps /\ [][NextGps]_vars

\* Claims about the GPS worker, checked under SpecGps

LineRead == obs.op = "read" /\ obs.running

\* C24: for a line the running worker reads, a position update is emitted
\* exactly when the line parses as a JSON object of class "TPV" that carries
\* lat, lon and mode with mode >= 2; after any line, malformed ones
\* included, the worker is still in its read loop.
C24_EmitsExactlyForFixes ==
    LineRead =>
        /\ ~obs.emitted.isNone <=>
               /\ obs.line.json = "object"
               /\ obs.line.class = "TPV"
               /\ {"lat", "lon", "mode"} \subseteq obs.line.keys
               /\ obs.line.mode \in {2, 3}
        /\ win.pc = "reading"

\* The second line read is a 2D fix without altitude, speed and track: it
\* is emitted with the defaults.
C24_Witness ==
    /\ LineRead
    /\ obs.n = 2
    /\ obs.line.json = "object"
    /\ obs.line.mode = 2
    /\ obs.line.keys = {"lat", "lon", "mode"}
    /\ obs.emitted = ListVal([lat |-> Home + 160, lon |-> LonFixed, alt |-> 0,
                              speed |-> 0, track |-> 0])

\* SpecStop: the worker with a few lines only, scheduled fairly: it starts,
\* it takes a line that is there, and it notices the end of the output.
\* Nothing makes gpspipe write a line or end.
StopLines ==
    {MalformedLine, ObjectLine("TPV", {"lat", "lon", "mode"}, 3, Home + 160, 1500),
     ObjectLine("SKY", {}, 1, Home + 160, 1500)}

NextStop ==
    \/ \E found \in BOOLEAN : StartWorker(found)
    \/ \E line \in StopLines : GpspipeWrites(line)
    \/ GpspipeExits
    \/ ReadLine
    \/ EndOfOutput
    \/ StopWorker

SpecStop ==
    /\ InitGps /\ [][NextStop]_vars
    /\ WF_vars(\E found \in BOOLEAN : StartWorker(found))
    /\ WF_vars(ReadLine)
    /\ WF_vars(EndOfOutput)

\* C30: after stop() the worker eventually leaves its read loop and
\* gpspipe is no longer running, also when gpspipe writes no further line.
C30_StopEndsWorker ==
    obs.stopped ~> (win.pc = "done" /\ win.process # "running")


\* ---- convert_api_data_to_repeater_format and malformed records ----

WellFormed(e) == ~LatRaises(e) /\ InMinnesota(e)

\* C25: when one record of the input of convert_api_data_to_repeater_format
\* is malformed, only that record is skipped: every well-formed record of
\* the input, before or after it, appears converted in the output.
C25_OnlyMalformedSkipped ==
    obs.op = "populate_skywarn_data" =>
        \A i \in 1..Len(obs.api_data) :
            WellFormed(obs.api_data[i]) =>
                \E k \in 1..Len(obs.converted) :
                    obs.converted[k] = ConvertedRow(obs.api_data[i])


\* ---- SpecMove: detect_movement on the history should_update_data keeps ----

\* Positions at rest, and one step below and above 0.05 mi away.
MoveLats == {Home, Home + 15, Home + 724, Home + 725}

\* detect_movement, called on the history as it stands (line 323).
DetectMovement ==
    /\ obs.op # "detect_movement"
    /\ obs' = [op |-> "detect_movement", n |-> obs.n,
               history |-> radio_api.location_history,
               ret |-> detect_movement(radio_api.location_history)]
    /\ UNCHANGED <<now, cache_dir, radio_api, win>>

NextMove ==
    \/ \E lat \in MoveLats : ShouldUpdateData(lat)
    \/ DetectMovement

SpecMove == InitDecide /\ [][NextMove]_vars

\* The distance between reading i of a history and the one after it.
StepMiles(h, i) == calculate_distance_miles(h[i].lat, h[i].lon, h[i + 1].lat, h[i + 1].lon)

\* C27: detect_movement returns true exactly when the history holds at
\* least 3 readings and the two distances between its last 3 readings add
\* up to more than 0.05 mi; with fewer than 3 readings it returns false.
C27_MovementOverLastThree ==
    obs.op = "detect_movement" =>
        (obs.ret <=>
            /\ Len(obs.history) >= 3
            /\ StepMiles(obs.history, Len(obs.history) - 2)
                   + StepMiles(obs.history, Len(obs.history) - 1) > 50000)

\* Movement found although the last step alone is within 0.05 mi.
C27_Witness ==
    /\ obs.op = "detect_movement"
    /\ obs.ret
    /\ Len(obs.history) >= 3
    /\ StepMiles(obs.history, Len(obs.history) - 1) <= 50000


\* ---- The fetch-tracking state, under SpecApi ----

\* last_api_location and last_api_time
Tracking == <<radio_api.last_api_location, radio_api.last_api_time>>

\* The cache record the last call wrote for its own data type, if it
\* reached its save (lines 677 and 809).
OwnRecordOf(data_type, location_key) ==
    {f \in cache_dir : /\ f.name = get_cache_filename(data_type, location_key)
                       /\ f.writer = obs.op /\ f.timestamp = now /\ f.data = obs.ret}

\* The last call did not end in its own fetch: get_repeaters_by_location
\* did not reach line 600, get_skywarn_repeaters and get_noaa_weather_radio
\* did not save and return a filtered list.
EndedInFallback ==
    \/ obs.op = "get_repeaters_by_location" /\ ~obs.fetched
    \/ obs.op = "get_skywarn_repeaters"
           /\ OwnRecordOf("skywarn", SkywarnKey(obs.lat, LonFixed, 100)) = {}
    \/ obs.op = "get_noaa_weather_radio"
           /\ OwnRecordOf("noaa", NoaaKey(obs.lat, LonFixed, 200)) = {}

\* C26, as stated: a call of one of the three data functions that ends in
\* a fallback (no API key, offline, cache hit, last known good data,
\* exception) leaves last_api_location and last_api_time unchanged.
C26_FallbackKeepsTracking ==
    [][EndedInFallback' => Tracking' = Tracking]_vars

\* C26, amended: last_api_location and last_api_time change only in a call
\* in which get_repeaters_by_location, called directly or from within
\* get_skywarn_repeaters or get_noaa_weather_radio, created the seed data
\* and ran update_api_tracking; they are then the position and the time of
\* that call.  Every other call leaves both unchanged.
C26_TrackingChangesOnlyInFetch ==
    [][Tracking' # Tracking =>
           /\ ObsIsApiCall' /\ obs'.fetched
           /\ Tracking' = <<Location(obs'.lat, LonFixed), now>>]_vars

\* A get_noaa_weather_radio call that found no station and returned the
\* (empty) last known good data, while the nested get_repeaters_by_location
\* recorded its fetch.
C26_Witness ==
    /\ obs.op = "get_noaa_weather_radio" /\ obs.fetched /\ obs.ret = <<>>
    /\ Tracking = <<Location(obs.lat, LonFixed), now>>


\* ---- SpecSkywarnCache: the SKYWARN record, written and read back ----

\* The cache fallback of populate_skywarn_data (line 3879) at a position:
\* load_from_cache("skywarn", f"{user_lat:.3f}_{user_lon:.3f}_100").
SkywarnCacheFallback(lat) ==
    /\ obs.n < MaxOps
    /\ obs' = [op |-> "skywarn_cache_fallback", n |-> obs.n + 1, decided |-> obs.decided,
               lat |-> lat, decisions |-> <<>>, first |-> FALSE, ret |-> <<>>,
               fetched |-> FALSE, after_data |-> FALSE, data_lat |-> Home,
               cached |-> load_from_cache(cache_dir, now, "skywarn",
                                          RepeatersKey(lat, LonFixed, 100), FALSE).val]
    /\ UNCHANGED <<now, cache_dir, radio_api, win>>

NextSkywarnCache ==
    \/ \E lat \in ApiLats, online \in BOOLEAN, rev \in BOOLEAN :
           GetSkywarnRepeaters(lat, online, rev)
    \/ \E lat \in ApiLats : SkywarnCacheFallback(lat)
    \/ \E seconds \in {15, 300} : ApiTimePasses(seconds)

SpecSkywarnCache == InitApi /\ [][NextSkywarnCache]_vars

\* The records get_skywarn_repeaters saved for a position (line 677).
SkywarnSavedFor(lat) ==
    {f \in cache_dir : /\ f.name = get_cache_filename("skywarn", SkywarnKey(lat, LonFixed, 100))
                       /\ f.writer = "get_skywarn_repeaters"}

\* C28: the payload get_skywarn_repeaters saved for a position is the
\* payload the cache fallback of populate_skywarn_data reads back for the
\* same position.
C28_FallbackReadsWhatWasSaved ==
    obs.op = "skywarn_cache_fallback" =>
        \A f \in SkywarnSavedFor(obs.lat) : obs.cached = ListVal(f.data)


\* ---- SpecManual: a manually entered location and the GPS fixes ----

\* -90 <= latitude <= 90 (the longitude entered is LonFixed)
ValidLatitude(latitude) == latitude >= 0 - 90000000 /\ latitude <= 90000000

\* set_manual_location: the mode, the position, and the refreshes of lines
\* 2739-2743; coordinates out of range raise ValueError before any change.
set_manual_location(X, t, latitude, longitude, online, rev) ==
    IF ~ValidLatitude(latitude) THEN X
    ELSE populate_all_amateur_data(
             populate_noaa_frequency_data(
                 populate_skywarn_data(
                     display_closest_sites(
                         [X EXCEPT !.win.manual_location_mode = TRUE,
                                   !.win.last_lat = latitude,
                                   !.win.last_lon = longitude]),
                     t, online, rev)),
             t, online, rev)

\* return_to_gps: the mode is reset and the position is the last GPS fix,
\* or the default position when there was none.
return_to_gps(X, t, online, rev) ==
    IF ~X.win.last_gps.isNone
    THEN populate_all_amateur_data(
             populate_noaa_frequency_data(
                 populate_skywarn_data(
                     display_closest_sites(
                         [X EXCEPT !.win.manual_location_mode = FALSE,
                                   !.win.last_lat = X.win.last_gps.lat,
                                   !.win.last_lon = X.win.last_gps.lon]),
                     t, online, rev)),
             t, online, rev)
    ELSE [X EXCEPT !.win.manual_location_mode = FALSE,
                   !.win.last_lat = Home, !.win.last_lon = LonFixed]

\* Latitudes entered by hand: two places away from the GPS fixes, and one
\* that is out of range.
ManualLats == {Home + 1000000, Home - 1000000, 91000000}

SetManualLocation(latitude, online, rev) ==
    /\ win.started /\ obs.n < MaxEvents + 1
    /\ online \in OnlineAnswers /\ rev \in ListingOrders
    /\ WinReturns("set_manual_location", latitude, 0,
                  set_manual_location(Here, now, latitude, LonFixed, online, rev))

ReturnToGps(online, rev) ==
    /\ win.started /\ obs.n < MaxEvents + 1
    /\ online \in OnlineAnswers /\ rev \in ListingOrders
    /\ WinReturns("return_to_gps", win.last_lat, 0,
                  return_to_gps(Here, now, online, rev))

NextManual ==
    \/ \E force_refresh \in {FALSE}, online \in BOOLEAN, rev \in BOOLEAN :
           CreateWindow(force_refresh, online, rev)
    \/ \E latitude \in KeyLats, speed \in KeySpeeds, online \in BOOLEAN, rev \in BOOLEAN :
           UpdateGpsData(latitude, speed, online, rev)
    \/ \E latitude \in ManualLats, online \in BOOLEAN, rev \in BOOLEAN :
           SetManualLocation(latitude, online, rev)
    \/ \E online \in BOOLEAN, rev \in BOOLEAN : ReturnToGps(online, rev)

SpecManual == Init /\ [][NextManual]_vars

\* C29: between a successful set_manual_location and the next
\* return_to_gps (manual_location_mode is set), a GPS fix that arrives
\* leaves last_lat and last_lon at the coordinates entered.
C29_ManualLocationStays ==
    [][(win.started /\ win.manual_location_mode /\ obs'.op = "update_gps_data")
           => (win'.last_lat = win.last_lat /\ win'.last_lon = win.last_lon)]_vars

=============================================================================
